---- MODULE Spec2Model ----
(***************************************************************************)
(* A model of MotionWall (src/motionwall.c): the monitor-aware background  *)
(* supervisor that keeps one external media player per background window.  *)
(*                                                                         *)
(* Conventions                                                             *)
(*  - C array index i is index i+1 here (TLA+ sequences start at 1).       *)
(*  - A process id is an index of the process table procs; pid 0 is "no    *)
(*    process".  SIGCHLD is ignored (main), so a process that ends leaves  *)
(*    no zombie: its entry is free again.  fork() gives the smallest free  *)
(*    pid that the supervisor does not still hold in a slot or a pid file, *)
(*    and fails when there is none (the process limit).                    *)
(*  - A window handle 0 is X11's None.                                     *)
(*  - player_start_time is kept relative to the clock: "zero" is the C     *)
(*    value 0, "recent" is now - start < 5, "settled" is 5 <= now - start  *)
(*    <= 600 and "expired" is now - start > 600 (the two thresholds of     *)
(*    check_and_restart_players).                                          *)
(*  - The functions of the program are operators from a world record W     *)
(*    (the program's variables) to the world after the call.  What the     *)
(*    environment decides during a call (fork failing, a player exiting,   *)
(*    how far the fade script got, a termination signal arriving) is an    *)
(*    extra argument that the calling action draws with \E.                *)
(*  - cleanup_and_exit ends in exit(0): once pc = "exited" no function of  *)
(*    the main thread has any further effect.                              *)
(***************************************************************************)
EXTENDS Integers, Sequences, FiniteSets, TLC

\* Bounds of the model.
MaxMonitors == 2
MaxPids == 3
MaxCount == 2
MaxInstances == 3
MaxInodes == 3
MaxItems == 4
MaxFiles == 3

\* Program constants.
MAX_PLAYLIST == 1024
NumExtensions == 8

VARIABLES
    \* motionwall_config: the option flags
    multi_monitor, per_monitor_content, seamless_transitions,
    \* motionwall_config: playlists, monitors, windows
    media_playlist, monitors, windows, window_count,
    \* the environment: the process table, the files
    \* /tmp/motionwall_new_pid_<i>
    procs, pid_file,
    \* the main thread: "start" (before the players are started), "loop",
    \* "exited"
    pc,
    \* history: what the last step of the supervisor did, as a sequence of
    \* <<operation, event, window>>; empty after a step of the environment
    log,
    \* cleanup_and_exit statement by statement (the shutdown model)
    sd,
    \* the instances of the program and /tmp/motionwall.lock (the lock model)
    lk,
    \* the start index and the number of advances (the playlist model)
    adv,
    \* the directory a playlist is built from (the build model)
    bd,
    \* main from the lock to the loop, and its exit status (the startup model)
    st,
    \* the signals terminate_player and terminate_fade_process send (the
    \* termination model)
    tp,
    \* the event queue and the phases of one tick (the event model)
    ev,
    \* the display server's outputs, the snapshot config.monitors and the
    \* window of single-monitor mode (the registry model)
    rg

supVars == <<multi_monitor, per_monitor_content, seamless_transitions,
             media_playlist, monitors, windows, window_count,
             procs, pid_file, pc, log>>

vars == <<supVars, sd, lk, adv, bd, st, tp, ev, rg>>

----------------------------------------------------------------------------
(* Data *)

\* typedef playlist (paths, count, current, shuffle); alloc = FALSE is the
\* NULL pointer of window_info.monitor_playlist.
Playlist(c, sh) ==
    [alloc |-> TRUE, paths |-> [k \in 1..c |-> <<1, k>>], count |-> c,
     current |-> 0, shuffle |-> sh]

\* A content item is <<e, k>>: the k-th file with the e-th recognized
\* extension; NoFile is the NULL of a const char *.
NoFile == <<0, 0>>

\* paths is a fixed array of strings: the entries from count on are empty.
EmptyPath == <<0, 1>>

PathAt(pl, k) == IF k + 1 \in DOMAIN pl.paths THEN pl.paths[k + 1] ELSE EmptyPath

NullPlaylist ==
    [alloc |-> FALSE, paths |-> <<>>, count |-> 0, current |-> 0,
     shuffle |-> FALSE]

\* typedef window_info as create_window_for_monitor leaves it.
NewWindow(handle) ==
    [window |-> handle, player_pid |-> 0, fade_pid |-> 0,
     player_active |-> FALSE, fade_active |-> FALSE,
     player_start_time |-> "zero", needs_resize |-> FALSE,
     monitor_playlist |-> NullPlaylist]

\* The program's variables as one record, and the assignment of a record to
\* the variables.
World ==
    [media_playlist |-> media_playlist, monitors |-> monitors,
     windows |-> windows, window_count |-> window_count, procs |-> procs,
     pid_file |-> pid_file, pc |-> pc, log |-> log, op |-> "none"]

SetWorld(W) ==
    /\ media_playlist' = W.media_playlist
    /\ monitors' = W.monitors
    /\ windows' = W.windows
    /\ window_count' = W.window_count
    /\ procs' = W.procs
    /\ pid_file' = W.pid_file
    /\ pc' = W.pc
    /\ log' = W.log
    /\ UNCHANGED <<multi_monitor, per_monitor_content, seamless_transitions, rg>>

\* A step of the supervisor.
Set(W) == SetWorld(W) /\ UNCHANGED <<sd, lk, adv, bd, st, tp, ev, rg>>

\* The world at the start of the operation name of the main thread.
Begin(name) == [World EXCEPT !.op = name, !.log = <<>>]

Note(W, what, i) == [W EXCEPT !.log = Append(@, <<W.op, what, i>>)]

----------------------------------------------------------------------------
(* The process table *)

NoProc ==
    [kind |-> "none", win |-> 0, alive |-> FALSE, primary |-> FALSE]

Alive(W, pid) == pid \in 1..MaxPids /\ W.procs[pid].alive

\* kill(pid, SIGTERM) followed, if the process is still there, by
\* kill(pid, SIGKILL): the process is gone afterwards.
Killed(W, pid) ==
    IF pid \in 1..MaxPids THEN [W EXCEPT !.procs[pid] = NoProc] ELSE W

\* The pids the supervisor holds.
Held(W) ==
    {W.windows[i].player_pid : i \in DOMAIN W.windows}
       \cup {W.windows[i].fade_pid : i \in DOMAIN W.windows}
       \cup {W.pid_file[i] : i \in DOMAIN W.pid_file}

FreePids(W) == {p \in 1..MaxPids : ~W.procs[p].alive /\ p \notin Held(W)}

NewPid(W) == CHOOSE p \in FreePids(W) : \A q \in FreePids(W) : p <= q

\* fork(): a new entry of the process table.
Forked(W, kind, i, primary) ==
    [W EXCEPT !.procs[NewPid(W)] =
        [kind |-> kind, win |-> i, alive |-> TRUE, primary |-> primary]]

\* A health check that never finds the player.
is_process_healthy_never(W, pid) == FALSE

\* What is_process_healthy reads of a process: the result of
\* kill(pid, 0), ESRCH exactly when the process does not exist; whether
\* the basename or the path of /proc/<pid>/exe names a player; whether
\* /proc/<pid>/cmdline does.
Probes(exists) ==
    {pr \in [kill : {"ok", "ESRCH", "EPERM"}, exe : BOOLEAN,
             cmdline : BOOLEAN] : (pr.kill = "ESRCH") <=> ~exists}

\* An is_process_healthy that trusts only a process it has identified.
process_health_strict(pid, pr) ==
    pid > 0 /\ (pr.kill = "EPERM" \/ (pr.kill = "ok" /\ (pr.exe \/ pr.cmdline)))

\* is_process_healthy, statement by statement.
process_health(pid, pr) ==
    IF pid <= 0 THEN FALSE
    ELSE IF pr.kill = "ESRCH" THEN FALSE
    ELSE IF pr.kill = "EPERM" THEN TRUE
    ELSE IF pr.kill # "ok" THEN FALSE
    ELSE IF pr.exe THEN TRUE
    ELSE IF pr.cmdline THEN TRUE
    ELSE TRUE

\* What is read of the process pid of the process table: a player is
\* identified, a fade script (bash) is not.
Probe(W, pid) ==
    IF Alive(W, pid)
    THEN [kill |-> "ok", exe |-> W.procs[pid].kind = "player",
          cmdline |-> W.procs[pid].kind = "player"]
    ELSE [kill |-> "ESRCH", exe |-> FALSE, cmdline |-> FALSE]

is_process_healthy(W, pid) == process_health(pid, Probe(W, pid))

----------------------------------------------------------------------------
(* Player Supervisor *)

terminate_player(W, i) ==
    IF i < 1 \/ i > W.window_count
    THEN W
    ELSE LET win == W.windows[i]
         IN  IF win.player_active /\ win.player_pid > 0
             THEN [Killed(Note(W, "terminate_player", i), win.player_pid)
                     EXCEPT !.windows[i].player_pid = 0,
                            !.windows[i].player_active = FALSE,
                            !.windows[i].player_start_time = "zero"]
             ELSE W

\* The fade process is left running and recorded.
terminate_fade_process_keep(W, i) == W

terminate_fade_process(W, i) ==
    IF i < 1 \/ i > W.window_count
    THEN W
    ELSE LET win == W.windows[i]
         IN  IF win.fade_active /\ win.fade_pid > 0
             THEN [Killed(W, win.fade_pid)
                     EXCEPT !.windows[i].fade_pid = 0,
                            !.windows[i].fade_active = FALSE]
             ELSE W

RECURSIVE terminate_all_from(_, _)
terminate_all_from(W, i) ==
    IF i > W.window_count
    THEN W
    ELSE terminate_all_from(
             terminate_fade_process(terminate_player(W, i), i), i + 1)

\* Terminating the players also rewinds the global playlist.
terminate_all_players_rewind(W) ==
    [terminate_all_from(W, 1) EXCEPT !.media_playlist.current = 0]

terminate_all_players(W) == terminate_all_from(W, 1)

\* cleanup_and_exit as one step (its steps, and a signal arriving between
\* them, are the subject of the shutdown model below).  config.windows is
\* freed and set to NULL; window_count keeps its value.
cleanup_and_exit(W) ==
    [terminate_all_players(W) EXCEPT !.windows = <<>>, !.pc = "exited"]

\* signal_handler: running = false; cleanup_and_exit().
signal_handler(W) == cleanup_and_exit(Note(W, "signal_handler", 0))

\* What fork() does in start_media_player: "ok", "fail" (fork returns -1),
\* or "sig": fork succeeded and a termination signal is delivered before
\* the parent has recorded the pid.
ForkOutcomes == {"ok", "fail", "sig"}

\* start_media_player after fork() has succeeded: W is the world with the
\* child in the process table, pid the child's pid.
record_player(W, i, pid, f) ==
    IF f = "sig" THEN signal_handler(W)
    ELSE [W EXCEPT !.windows[i].player_pid = pid,
                   !.windows[i].player_active = TRUE,
                   !.windows[i].player_start_time = "recent"]

\* A start that does not look at the handle of the window.
spawn_player_blind(W, i, f) ==
    IF f = "fail" \/ FreePids(W) = {}
    THEN Note(W, "fork_failed", i)
    ELSE record_player(Note(Forked(W, "player", i, TRUE), "fork", i),
                       i, NewPid(W), f)

\* start_media_player from the choice of the playlist on.  The child runs
\* the player on current_file: the log has the number of the file.
spawn_player(W, i, f) ==
    LET win == W.windows[i]
        current_file ==
            IF per_monitor_content /\ win.monitor_playlist.alloc
                  /\ win.monitor_playlist.count > 0
            THEN PathAt(win.monitor_playlist, win.monitor_playlist.current)
            ELSE IF W.media_playlist.count > 0
            THEN PathAt(W.media_playlist, W.media_playlist.current)
            ELSE NoFile
    IN
    IF current_file = NoFile THEN Note(W, "no_media_file", i)
    ELSE IF win.window = 0 THEN Note(W, "invalid_window", i)
    ELSE IF f = "fail" \/ FreePids(W) = {}
    THEN [Note(W, "fork_failed", i)
            EXCEPT !.windows[i].player_pid = 0,
                   !.windows[i].player_active = FALSE,
                   !.windows[i].player_start_time = "zero"]
    ELSE record_player(Note(Note(Forked(W, "player", i, TRUE), "fork", i),
                            "exec", current_file[2]),
                       i, NewPid(W), f)

start_media_player(W, i, f) ==
    IF W.pc = "exited" THEN W
    ELSE IF i < 1 \/ i > W.window_count
    THEN Note(W, "invalid_window_index", i)
    ELSE
    LET win == W.windows[i]
        recorded == win.player_active /\ win.player_pid > 0
    IN
    IF recorded /\ is_process_healthy(W, win.player_pid)
    THEN W
    ELSE spawn_player(IF recorded THEN terminate_player(W, i) ELSE W, i, f)

----------------------------------------------------------------------------
(* Transition Engine *)

\* What has happened when the supervisor's sleep(1) ends: the fade script
\* has not yet started the new player ("none"), has started it but not yet
\* written the pid file ("spawned"), has started it and written the pid
\* file ("written"), or has started it and writes the pid file only after
\* the supervisor looked for it, before the script is killed ("late");
\* "sig": a termination signal is delivered during the sleep(1), after the
\* script has started the new player; "early": a termination signal is
\* delivered after fork() has returned the script's pid and before the
\* pid is recorded in the window.
FadeOutcomes == {"none", "spawned", "written", "late", "sig", "early"}

\* The pid file is written after the supervisor looked for it.
late_pid_file(W, i, o, new_pid) ==
    IF new_pid > 0 /\ o = "late" THEN [W EXCEPT !.pid_file[i] = new_pid] ELSE W

\* The pid read from the pid file becomes the primary player of the window.
promoted(W, i, read) ==
    [Note(W, "promote", i)
       EXCEPT !.windows[i].player_pid = read,
              !.windows[i].player_active = TRUE,
              !.windows[i].player_start_time = "recent",
              !.procs[read].primary = W.procs[read].alive,
              !.pid_file[i] = 0]

\* start_fade_transition after the sleep(1): the pid file is read, the old
\* player terminated and the file removed.
promote(W, i) ==
    LET read == W.pid_file[i]
        win == W.windows[i]
    IN  IF read > 0
        THEN promoted(IF win.player_active /\ win.player_pid > 0
                      THEN terminate_player(W, i) ELSE W, i, read)
        ELSE W

\* The end of the sleep(1); new_pid is the player the script has started
\* (0: none).
fade_wake(W, i, o, new_pid) ==
    IF o = "sig" THEN signal_handler(W)
    ELSE terminate_fade_process(
             late_pid_file(promote(W, i), i, o, new_pid), i)

\* The sleep(1): what the script does meanwhile.
fade_sleep(W, i, o) ==
    LET spawns == o # "none" /\ FreePids(W) # {}
        new_pid == IF spawns THEN NewPid(W) ELSE 0
    IN  fade_wake(IF spawns
                  THEN [Forked(W, "player", i, FALSE)
                          EXCEPT !.pid_file[i] =
                                    IF o = "written" THEN new_pid ELSE @]
                  ELSE W,
                  i, o, new_pid)

\* start_fade_transition from the check of the window on: the script is
\* written and forked.  The script runs the player on next_file: the log
\* has the number of the file.
fade_script(W, i, next_file, o) ==
    IF W.windows[i].window = 0 \/ next_file = NoFile THEN W
    ELSE IF FreePids(W) = {} THEN Note(W, "fork_failed", i)
    ELSE IF o = "early"
    THEN signal_handler(Note(Forked(W, "script", i, FALSE),
                             "fade_script", i))
    ELSE fade_sleep(Note(Note([Forked(W, "script", i, FALSE)
                                 EXCEPT !.windows[i].fade_pid = NewPid(W),
                                        !.windows[i].fade_active = TRUE],
                              "fade_script", i),
                         "next_file", next_file[2]),
                    i, o)

start_fade_transition(W, i, next_file, o) ==
    IF W.pc = "exited" THEN W
    ELSE IF ~seamless_transitions \/ i < 1 \/ i > W.window_count THEN W
    ELSE fade_script(IF W.windows[i].fade_active
                     THEN terminate_fade_process(W, i) ELSE W,
                     i, next_file, o)

----------------------------------------------------------------------------
(* Content Scheduler *)

\* An advance without the guard on the item count and without the modulo.
playlist_next_unguarded(W, r) ==
    IF W.pc = "exited" THEN W
    ELSE Note([W EXCEPT !.media_playlist.current =
                   IF W.media_playlist.shuffle THEN r ELSE @ + 1],
              "playlist_next", 0)

\* r is the value of rand().
playlist_next(W, r) ==
    IF W.pc = "exited" THEN W
    ELSE IF W.media_playlist.count <= 1 THEN W
    ELSE Note([W EXCEPT !.media_playlist.current =
                   IF W.media_playlist.shuffle
                   THEN r % W.media_playlist.count
                   ELSE (@ + 1) % W.media_playlist.count],
              "playlist_next", 0)

\* An advance of a monitor's playlist without the modulo.
monitor_playlist_next_unguarded(W, i, r) ==
    IF W.pc = "exited" THEN W
    ELSE IF i < 1 \/ i > W.window_count THEN W
    ELSE IF ~W.windows[i].monitor_playlist.alloc THEN W
    ELSE Note([W EXCEPT !.windows[i].monitor_playlist.current = @ + 1],
              "monitor_playlist_next", i)

monitor_playlist_next(W, i, r) ==
    IF W.pc = "exited" THEN W
    ELSE IF i < 1 \/ i > W.window_count THEN W
    ELSE LET mp == W.windows[i].monitor_playlist
         IN  IF ~mp.alloc \/ mp.count <= 1 THEN W
             ELSE Note([W EXCEPT !.windows[i].monitor_playlist.current =
                            IF mp.shuffle
                            THEN r % mp.count
                            ELSE (@ + 1) % mp.count],
                       "monitor_playlist_next", i)

----------------------------------------------------------------------------
(* Health check *)

\* One iteration of the loop of check_and_restart_players.  o.fork is what
\* fork() does if this iteration starts a player; o.dies: the player exits
\* between the health check of the first block and that of the ten-minute
\* re-check.
CheckOutcomes ==
    {o \in [fork : ForkOutcomes, dies : BOOLEAN] : o.dies => o.fork # "sig"}

\* A restart for a resize that leaves needs_resize set.
resized_keep(W, i) == W

\* After the restart for a resize: needs_resize = false.
resized(W, i) ==
    IF W.pc = "exited" THEN W
    ELSE [W EXCEPT !.windows[i].needs_resize = FALSE]

\* The first block of an iteration: the player of the window is checked.
check_player(W, i, o) ==
    LET win == W.windows[i]
    IN  IF win.player_active /\ win.player_pid > 0
        THEN IF ~is_process_healthy(W, win.player_pid)
             THEN start_media_player(
                     [W EXCEPT !.windows[i].player_pid = 0,
                               !.windows[i].player_active = FALSE,
                               !.windows[i].player_start_time = "zero"],
                     i, o.fork)
             ELSE IF win.needs_resize
             THEN resized(start_media_player(
                             terminate_player(Note(W, "resize_restart", i),
                                              i),
                             i, o.fork), i)
             ELSE W
        ELSE IF ~win.player_active /\ win.window # 0
        THEN start_media_player(W, i, o.fork)
        ELSE W

\* The end of the ten-minute re-check: player_start_time = now.
restamped(W, i) ==
    IF W.pc = "exited" THEN W
    ELSE [W EXCEPT !.windows[i].player_start_time = "recent"]

\* A ten-minute re-check that restarts the player whatever its health.
recheck_player_always(W, i, o, pid) ==
    restamped(start_media_player(terminate_player(W, i), i, o.fork), i)

\* The ten-minute re-check of a player that W holds as pid.
recheck_player(W, i, o, pid) ==
    restamped(IF ~is_process_healthy(W, pid)
              THEN start_media_player(terminate_player(W, i), i, o.fork)
              ELSE W, i)

\* The second block of an iteration.
recheck_window(W, i, o) ==
    IF W.pc = "exited" THEN W
    ELSE
    LET win == W.windows[i]
    IN  IF win.player_active /\ win.player_start_time = "expired"
        THEN recheck_player(IF o.dies THEN Killed(W, win.player_pid) ELSE W,
                            i, o, win.player_pid)
        ELSE W

\* An iteration that checks the player whenever it started.
check_window_eager(W, i, o) ==
    IF W.pc = "exited" THEN W
    ELSE recheck_window(check_player(W, i, o), i, o)

check_window(W, i, o) ==
    IF W.pc = "exited" THEN W
    ELSE
    LET win == W.windows[i]
    IN  IF win.player_active /\ win.player_pid > 0
              /\ win.player_start_time = "recent"
        THEN W
        ELSE recheck_window(check_player(W, i, o), i, o)

RECURSIVE check_from(_, _, _)
check_from(W, i, o) ==
    IF i > W.window_count \/ W.pc = "exited"
    THEN W
    ELSE check_from(check_window(W, i, o[i]), i + 1, o)

check_and_restart_players(W, o) == check_from(W, 1, o)

----------------------------------------------------------------------------
(* Monitor Registry and Surface Manager *)

\* What XRandR reports to check_monitor_changes: the number of connected
\* monitors, and whether the geometry (x, y, width, height) of one of them
\* differs from the stored snapshot.  The model keeps the count of
\* config.monitors; its geometries are those of the last detection stored.
Detections == [count : 1..MaxMonitors, moved : BOOLEAN]

\* check_monitor_changes: the detection replaces the stored snapshot when
\* the count or a geometry differs.
monitors_differ(W, new) == new.count # W.monitors.count \/ new.moved

check_monitor_changes(W, new) ==
    IF monitors_differ(W, new)
    THEN [W EXCEPT !.monitors = [count |-> new.count]]
    ELSE W

resize_window_for_monitor(W, i, m) ==
    IF i > W.window_count \/ m > W.monitors.count THEN W
    ELSE IF W.windows[i].window = 0 THEN W
    ELSE [W EXCEPT !.windows[i].needs_resize = TRUE]

\* create_window_for_monitor(m): config.windows[m] is zeroed and set up;
\* created = FALSE: XCreateWindow returned None.
create_window_for_monitor(W, m, created) ==
    IF m > W.monitors.count \/ m < 1 THEN W
    ELSE [W EXCEPT !.windows =
            [k \in 1..(IF m > Len(@) THEN m ELSE Len(@)) |->
                IF k = m THEN NewWindow(IF created THEN m ELSE 0) ELSE @[k]]]

RECURSIVE resize_from(_, _)
resize_from(W, i) ==
    IF i > W.window_count \/ i > W.monitors.count
    THEN W
    ELSE resize_from(resize_window_for_monitor(W, i, i), i + 1)

\* The loop of handle_screen_resize that creates the additional windows:
\* start_media_player runs while window_count still has its old value.
RECURSIVE create_from(_, _, _, _)
create_from(W, i, created, f) ==
    IF i > W.monitors.count
    THEN W
    ELSE LET W1 == create_window_for_monitor(W, i, created)
         IN  create_from(IF W1.windows[i].window # 0
                         THEN start_media_player(W1, i, f) ELSE W1,
                         i + 1, created, f)

\* config.window_count = config.monitors.count
counted(W) ==
    IF W.pc = "exited" THEN W
    ELSE [W EXCEPT !.window_count = W.monitors.count]

\* handle_screen_resize after the windows were resized.
add_windows(W, created, f) ==
    IF multi_monitor /\ W.monitors.count > W.window_count
    THEN counted(create_from(W, W.window_count + 1, created, f))
    ELSE W

\* new is what the check_monitor_changes call of handle_screen_resize
\* detects.
handle_screen_resize(W, new, created, f) ==
    IF W.pc = "exited" THEN W
    ELSE IF ~monitors_differ(W, new) THEN W
    ELSE add_windows(resize_from(check_monitor_changes(W, new), 1),
                     created, f)

----------------------------------------------------------------------------
(* Coordination loop: the playlist change of main *)

RECURSIVE start_all_from(_, _, _)
start_all_from(W, i, f) ==
    IF i > W.window_count \/ W.pc = "exited"
    THEN W
    ELSE start_all_from(start_media_player(W, i, f[i]), i + 1, f)

RECURSIVE next_all_from(_, _, _)
next_all_from(W, i, r) ==
    IF i > W.window_count
    THEN W
    ELSE next_all_from(monitor_playlist_next(W, i, r[i]), i + 1, r)

\* The loop over the windows of the branch with seamless transitions.
RECURSIVE smooth_from(_, _, _, _)
smooth_from(W, i, o, r) ==
    IF i > W.window_count \/ W.pc = "exited"
    THEN W
    ELSE
    LET win == W.windows[i]
        gp == W.media_playlist
    IN  smooth_from(
            IF per_monitor_content /\ win.monitor_playlist.alloc
                  /\ win.monitor_playlist.count > 1
            THEN LET W1 == monitor_playlist_next(W, i, r[i])
                     mp == W1.windows[i].monitor_playlist
                 IN  start_fade_transition(W1, i, PathAt(mp, mp.current),
                                           o[i])
            ELSE IF gp.count > 1
            THEN LET next_index == IF gp.shuffle THEN r[i] % gp.count
                                   ELSE (gp.current + 1) % gp.count
                 IN  start_fade_transition(W, i, PathAt(gp, next_index),
                                           o[i])
            ELSE W,
            i + 1, o, r)

\* The change without transitions that starts the players before it
\* advances the playlists.
playlist_change_late_advance(W, o, r, g, f) ==
    LET W1 == start_all_from(terminate_all_players(W), 1, f)
    IN  IF per_monitor_content
        THEN next_all_from(W1, 1, r)
        ELSE playlist_next(W1, g)

\* main, "Handle playlist changes": o, f are what happens in each window's
\* fade transition or spawn, r and g the values of rand().
playlist_change(W, o, r, g, f) ==
    IF seamless_transitions
    THEN LET W1 == smooth_from(W, 1, o, r)
         IN  IF ~per_monitor_content THEN playlist_next(W1, g) ELSE W1
    ELSE LET W1 == terminate_all_players(W)
             W2 == IF per_monitor_content
                   THEN next_all_from(W1, 1, r)
                   ELSE playlist_next(W1, g)
         IN  start_all_from(W2, 1, f)

----------------------------------------------------------------------------
(* The supervisor: initial states and actions *)

\* What create_monitor_playlists leaves in a window: NULL (the path cannot
\* be accessed), or a playlist of the files found.
MonitorPlaylists(sh) ==
    {NullPlaylist} \cup {Playlist(c, sh) : c \in 0..MaxCount}

\* The variables of the other models while they are not in use.
SdIdle == [pc |-> "idle"]
LkIdle == [pc |-> "idle"]
AdvIdle == [pc |-> "idle"]
BdIdle == [pc |-> "idle"]
Idle == [pc |-> "idle"]

\* The startup, termination and event models are not run.
Resting == st = Idle /\ tp = Idle /\ ev = Idle /\ rg = Idle

\* The state of main before "Start media players": the options are set, the
\* monitors detected, the playlists built, every window created.  In
\* per-monitor mode main builds no global playlist.  Seamless transitions
\* are modelled with a single surface.
SupStart ==
    /\ multi_monitor \in BOOLEAN
    /\ per_monitor_content \in BOOLEAN
    /\ seamless_transitions \in BOOLEAN
    /\ seamless_transitions => ~multi_monitor
    /\ \E n \in 1..MaxMonitors : monitors = [count |-> n]
    /\ window_count = IF multi_monitor THEN monitors.count ELSE 1
    /\ \E sh \in BOOLEAN :
          IF per_monitor_content
          THEN /\ media_playlist = Playlist(0, sh)
               /\ \E mps \in [1..window_count -> MonitorPlaylists(sh)] :
                     windows = [i \in 1..window_count |->
                                  [NewWindow(i) EXCEPT !.monitor_playlist = mps[i]]]
          ELSE /\ \E c \in 1..MaxCount : media_playlist = Playlist(c, sh)
               /\ windows = [i \in 1..window_count |-> NewWindow(i)]
    /\ procs = [p \in 1..MaxPids |-> NoProc]
    /\ pid_file = [i \in 1..MaxMonitors |-> 0]
    /\ pc = "start"
    /\ log = <<>>

SupInit ==
    SupStart /\ sd = SdIdle /\ lk = LkIdle /\ adv = AdvIdle /\ bd = BdIdle /\ Resting

\* The values of rand() that matter: one per index of a shuffled playlist.
Rand == IF media_playlist.shuffle THEN 0..(MaxCount - 1) ELSE {0}

Wins == 1..window_count

\* main: "Start media players".
StartPlayers ==
    /\ pc = "start"
    /\ \E f \in [Wins -> ForkOutcomes] :
          LET W == start_all_from(Begin("start_players"), 1, f)
          IN  Set(IF W.pc = "exited" THEN W ELSE [W EXCEPT !.pc = "loop"])

\* main: the health check of the loop.  Only a player that has been running
\* for more than ten minutes is checked twice.
CheckAndRestart ==
    /\ pc = "loop"
    /\ \E o \in [Wins -> CheckOutcomes] :
          /\ \A i \in Wins :
                o[i].dies => windows[i].player_start_time = "expired"
          /\ Set(check_and_restart_players(
                     Begin("check_and_restart_players"), o))

\* main: the playlist duration has elapsed.
PlaylistChange ==
    /\ pc = "loop"
    /\ \E r \in [Wins -> IF per_monitor_content \/ seamless_transitions
                           THEN Rand ELSE {0}],
          g \in IF per_monitor_content THEN {0} ELSE Rand :
          IF seamless_transitions
          THEN \E o \in [Wins -> FadeOutcomes] :
                  Set(playlist_change(Begin("playlist_change"), o, r, g,
                                      [i \in Wins |-> "ok"]))
          ELSE \E f \in [Wins -> ForkOutcomes] :
                  Set(playlist_change(Begin("playlist_change"),
                                      [i \in Wins |-> "none"], r, g, f))

\* Whether XCreateWindow succeeds, where the detection makes
\* handle_screen_resize create windows.
Creations(new) ==
    IF multi_monitor /\ new.count > window_count THEN BOOLEAN ELSE {TRUE}

\* main: an RRScreenChangeNotify event is dispatched.
ScreenChangeEvent ==
    /\ pc = "loop"
    /\ \E new \in Detections :
          \E created \in Creations(new) :
             Set(handle_screen_resize(Begin("screen_change_event"), new,
                                      created, "ok"))

\* main: the periodic fallback, if (check_monitor_changes())
\* handle_screen_resize().  new is what the check of main detects, again
\* what the check of handle_screen_resize detects after it.
screen_poll(W, new, again, created) ==
    IF monitors_differ(W, new)
    THEN handle_screen_resize(check_monitor_changes(W, new), again,
                              created, "ok")
    ELSE W

ScreenPoll ==
    /\ pc = "loop"
    /\ \E new \in Detections :
          IF monitors_differ(World, new)
          THEN \E again \in Detections :
                  \E created \in Creations(again) :
                     Set(screen_poll(Begin("screen_poll"), new, again,
                                     created))
          ELSE Set(screen_poll(Begin("screen_poll"), new, new, TRUE))

\* A termination signal between two operations of the main thread.
Signal ==
    /\ pc \in {"start", "loop"}
    /\ Set(signal_handler(Begin("signal")))

\* main: the loop ends (running cleared by an event, or the display lost).
LoopExit ==
    /\ pc = "loop"
    /\ Set(cleanup_and_exit(Begin("loop_exit")))

\* Environment: a process exits by itself.
ProcessExits ==
    /\ pc = "loop"
    /\ \E pid \in 1..MaxPids :
          /\ procs[pid].alive
          /\ procs' = [procs EXCEPT ![pid] = NoProc]
    /\ log' = <<>>
    /\ UNCHANGED <<multi_monitor, per_monitor_content, seamless_transitions,
                   media_playlist, monitors, windows, window_count,
                   pid_file, pc, sd, lk, adv, bd,
                   st, tp, ev, rg>>

\* Environment: a fade script that is still running goes on after its
\* sleep 0.2: it starts the player on the window and ends.
ScriptRuns ==
    /\ \E pid \in 1..MaxPids :
          /\ procs[pid].alive
          /\ procs[pid].kind = "script"
          /\ FreePids(World) # {}
          /\ procs' = [Forked(World, "player", procs[pid].win, FALSE).procs
                         EXCEPT ![pid] = NoProc]
    /\ log' = <<>>
    /\ UNCHANGED <<multi_monitor, per_monitor_content, seamless_transitions,
                   media_playlist, monitors, windows, window_count,
                   pid_file, pc, sd, lk, adv, bd,
                   st, tp, ev, rg>>

\* Environment: time passes; d = "short" takes every player out of the
\* 5-second grace window, d = "long" is more than 600 seconds.
Aged(t, d) ==
    IF t = "zero" THEN t
    ELSE IF d = "long" THEN "expired"
    ELSE IF t = "recent" THEN "settled" ELSE t

TimePasses ==
    /\ pc = "loop"
    /\ \E d \in {"short", "long"} :
          /\ windows' = [i \in DOMAIN windows |->
                           [windows[i] EXCEPT !.player_start_time = Aged(@, d)]]
          /\ windows' # windows
    /\ log' = <<>>
    /\ UNCHANGED <<multi_monitor, per_monitor_content, seamless_transitions,
                   media_playlist, monitors, window_count, procs,
                   pid_file, pc, sd, lk, adv, bd,
                   st, tp, ev, rg>>

SupNext ==
    \/ StartPlayers
    \/ CheckAndRestart
    \/ PlaylistChange
    \/ ScreenChangeEvent
    \/ ScreenPoll
    \/ Signal
    \/ LoopExit
    \/ ProcessExits
    \/ ScriptRuns
    \/ TimePasses

Init == SupInit
Next == SupNext
Spec == Init /\ [][Next]_vars

----------------------------------------------------------------------------
(* The shutdown model: cleanup_and_exit statement by statement *)

\* SIGTERM and SIGINT both run signal_handler.  cleanup_and_exit never
\* returns, so a handler that interrupts it abandons the interrupted run:
\* only the innermost run of cleanup_and_exit makes steps.
Signals == {"SIGTERM", "SIGINT"}

\* sd.pc is the statement the innermost run is at, sd.i the loop index;
\* sd.windows is the pointer config.windows ("valid", "freed": freed but not
\* yet NULL, "null"), sd.display the pointer display ("open", "closed":
\* closed but not yet NULL, "null"), sd.lock_fd whether lock_fd >= 0 and
\* sd.lock the state of the lock ("locked", "unlocked", "closed",
\* "unlinked"); sd.playlist[i] is the pointer monitor_playlist of window i.
\* The rest is history: how often each resource was released, and whether
\* freed memory was used.
SdStart ==
    [pc |-> "loop", i |-> 0, pending |-> Signals, entries |-> 0,
     windows |-> "valid", display |-> "open", lock_fd |-> TRUE,
     lock |-> "locked",
     playlist |-> [i \in 1..MaxMonitors |->
                     IF i \in DOMAIN windows /\ windows[i].monitor_playlist.alloc
                     THEN "valid" ELSE "null"],
     destroys |-> [i \in 1..MaxMonitors |-> 0],
     playlist_frees |-> [i \in 1..MaxMonitors |-> 0],
     frees |-> 0, closes |-> 0, unlocks |-> 0,
     use_after_free |-> FALSE]

SdInit ==
    SupStart /\ sd = SdStart /\ lk = LkIdle /\ adv = AdvIdle /\ bd = BdIdle /\ Resting

SdKeep == UNCHANGED <<supVars, lk, adv, bd, st, tp, ev, rg>>

SdRunning == sd.pc \notin {"loop", "exited", "crashed"}

\* main before the loop: the players are started.
SdStartPlayers ==
    /\ pc = "start"
    /\ SetWorld([start_all_from(Begin("start_players"), 1,
                                [i \in Wins |-> "ok"]) EXCEPT !.pc = "loop"])
    /\ UNCHANGED <<sd, lk, adv, bd, st, tp, ev, rg>>

\* cleanup_and_exit is entered: running = false.
SdEnter == [sd EXCEPT !.pc = "terminate", !.i = 1, !.entries = @ + 1]

\* main: the loop ends and main calls cleanup_and_exit.
SdLoopExit ==
    /\ pc = "loop" /\ sd.pc = "loop"
    /\ sd' = SdEnter
    /\ SdKeep

\* A termination signal is delivered, in the loop or in cleanup_and_exit.
SdSignal ==
    /\ pc = "loop" /\ sd.pc \notin {"exited", "crashed"}
    /\ \E s \in sd.pending :
          sd' = [SdEnter EXCEPT !.pending = @ \ {s}]
    /\ SdKeep

\* terminate_all_players: one iteration, which reads config.windows[i].
\* With config.windows freed the read is undefined: the run crashes or goes
\* on with what the memory held.
SdTerminate ==
    /\ sd.pc = "terminate"
    /\ IF sd.i > window_count
       THEN sd' = [sd EXCEPT !.pc = "check_windows"] /\ SdKeep
       ELSE \/ /\ sd.windows = "valid"
               /\ sd' = [sd EXCEPT !.i = @ + 1]
               /\ SetWorld(terminate_fade_process(
                              terminate_player(Begin("cleanup_and_exit"),
                                               sd.i), sd.i))
               /\ UNCHANGED <<lk, adv, bd, st, tp, ev, rg>>
            \/ /\ sd.windows = "freed"
               /\ \E crash \in BOOLEAN :
                     sd' = [sd EXCEPT !.use_after_free = TRUE,
                                      !.i = IF crash THEN @ ELSE @ + 1,
                                      !.pc = IF crash THEN "crashed" ELSE @]
               /\ SdKeep
            \/ /\ sd.windows = "null"
               /\ sd' = [sd EXCEPT !.pc = "crashed"]
               /\ SdKeep

\* if (config.windows && display)
SdCheckWindows ==
    /\ sd.pc = "check_windows"
    /\ sd' = IF sd.windows # "null" /\ sd.display # "null"
             THEN [sd EXCEPT !.pc = "destroy", !.i = 1]
             ELSE [sd EXCEPT !.pc = "check_display"]
    /\ SdKeep

\* if (config.windows[i].window != None) XDestroyWindow(...): the handle is
\* not reset.
SdDestroy ==
    /\ sd.pc = "destroy"
    /\ sd' = IF sd.i > window_count
             THEN [sd EXCEPT !.pc = "free_windows"]
             ELSE [sd EXCEPT !.pc = "free_playlist",
                             !.use_after_free = @ \/ sd.windows = "freed",
                             !.destroys[sd.i] =
                                 IF windows[sd.i].window # 0 THEN @ + 1 ELSE @]
    /\ SdKeep

\* if (config.windows[i].monitor_playlist) free(...)
SdFreePlaylist ==
    /\ sd.pc = "free_playlist"
    /\ sd' = IF sd.playlist[sd.i] = "null"
             THEN [sd EXCEPT !.pc = "destroy", !.i = @ + 1]
             ELSE [sd EXCEPT !.pc = "null_playlist",
                             !.playlist[sd.i] = "freed",
                             !.playlist_frees[sd.i] = @ + 1]
    /\ SdKeep

\* config.windows[i].monitor_playlist = NULL
SdNullPlaylist ==
    /\ sd.pc = "null_playlist"
    /\ sd' = [sd EXCEPT !.pc = "destroy", !.i = @ + 1,
                        !.playlist[sd.i] = "null"]
    /\ SdKeep

\* XSync(display, False); free(config.windows)
SdFreeWindows ==
    /\ sd.pc = "free_windows"
    /\ sd' = [sd EXCEPT !.pc = "null_windows", !.windows = "freed",
                        !.frees = @ + 1]
    /\ SdKeep

\* config.windows = NULL; window_count keeps its value.
SdNullWindows ==
    /\ sd.pc = "null_windows"
    /\ sd' = [sd EXCEPT !.pc = "check_display", !.windows = "null"]
    /\ SdKeep

\* if (display)  (the monitor paths are freed before it)
SdCheckDisplay ==
    /\ sd.pc = "check_display"
    /\ sd' = [sd EXCEPT !.pc = IF sd.display # "null"
                               THEN "close_display" ELSE "check_lock"]
    /\ SdKeep

\* XCloseDisplay(display)
SdCloseDisplay ==
    /\ sd.pc = "close_display"
    /\ sd' = [sd EXCEPT !.pc = "null_display", !.display = "closed",
                        !.closes = @ + 1]
    /\ SdKeep

\* display = NULL
SdNullDisplay ==
    /\ sd.pc = "null_display"
    /\ sd' = [sd EXCEPT !.pc = "check_lock", !.display = "null"]
    /\ SdKeep

\* if (lock_fd >= 0)
SdCheckLock ==
    /\ sd.pc = "check_lock"
    /\ sd' = [sd EXCEPT !.pc = IF sd.lock_fd THEN "unlock" ELSE "exit"]
    /\ SdKeep

\* flock(lock_fd, LOCK_UN)
SdUnlock ==
    /\ sd.pc = "unlock"
    /\ sd' = [sd EXCEPT !.pc = "close_lock", !.unlocks = @ + 1,
                        !.lock = IF @ = "locked" THEN "unlocked" ELSE @]
    /\ SdKeep

\* close(lock_fd)
SdCloseLock ==
    /\ sd.pc = "close_lock"
    /\ sd' = [sd EXCEPT !.pc = "unlink_lock",
                        !.lock = IF @ = "unlocked" THEN "closed" ELSE @]
    /\ SdKeep

\* unlink("/tmp/motionwall.lock")
SdUnlinkLock ==
    /\ sd.pc = "unlink_lock"
    /\ sd' = [sd EXCEPT !.pc = "clear_lock", !.lock = "unlinked"]
    /\ SdKeep

\* lock_fd = -1
SdClearLock ==
    /\ sd.pc = "clear_lock"
    /\ sd' = [sd EXCEPT !.pc = "exit", !.lock_fd = FALSE]
    /\ SdKeep

\* exit(0)
SdExit ==
    /\ sd.pc = "exit"
    /\ sd' = [sd EXCEPT !.pc = "exited"]
    /\ SetWorld([Begin("cleanup_and_exit") EXCEPT !.pc = "exited"])
    /\ UNCHANGED <<lk, adv, bd, st, tp, ev, rg>>

SdNext ==
    \/ SdStartPlayers
    \/ SdLoopExit
    \/ SdSignal
    \/ SdTerminate
    \/ SdCheckWindows
    \/ SdDestroy
    \/ SdFreePlaylist
    \/ SdNullPlaylist
    \/ SdFreeWindows
    \/ SdNullWindows
    \/ SdCheckDisplay
    \/ SdCloseDisplay
    \/ SdNullDisplay
    \/ SdCheckLock
    \/ SdUnlock
    \/ SdCloseLock
    \/ SdUnlinkLock
    \/ SdClearLock
    \/ SdExit

SpecShutdown == SdInit /\ [][SdNext]_vars

\* C3: however often and wherever the shutdown is entered, no window is
\* destroyed twice, the window array is neither used after it was freed nor
\* freed twice, the display is closed at most once and the lock released
\* at most once.
C3_ShutdownOnce ==
    /\ \A i \in 1..MaxMonitors : sd.destroys[i] <= 1
    /\ sd.frees <= 1
    /\ ~sd.use_after_free
    /\ sd.closes <= 1
    /\ sd.unlocks <= 1

----------------------------------------------------------------------------
(* Properties of the supervisor *)

\* The events of a log that concern window i: the log has an event what for i.
Logged(l, what, i) == \E k \in DOMAIN l : l[k][2] = what /\ l[k][3] = i

\* The live player processes started as the primary player of surface i.
LivePrimaries(i) ==
    {p \in 1..MaxPids : /\ procs[p].alive
                        /\ procs[p].kind = "player"
                        /\ procs[p].primary
                        /\ procs[p].win = i}

RecordedAlive(i) ==
    /\ windows[i].player_active
    /\ windows[i].player_pid > 0
    /\ Alive(World, windows[i].player_pid)

\* C1: in every reachable state every surface has at most one live process
\* that was started as its primary player, and start_media_player on a
\* surface whose recorded player is alive leaves the process table as it is.
C1_OnePrimary ==
    /\ \A i \in 1..MaxMonitors : Cardinality(LivePrimaries(i)) <= 1
    /\ pc # "exited" =>
          \A i \in Wins : \A f \in ForkOutcomes :
             RecordedAlive(i) =>
                start_media_player(World, i, f).procs = procs

\* A surface whose primary player was terminated and replaced in the last
\* step, and whose new player is alive.
C1_Witness ==
    /\ pc = "loop"
    /\ \E i \in Wins :
          /\ RecordedAlive(i)
          /\ \E k, l \in DOMAIN log :
                /\ k < l
                /\ log[k][2] = "terminate_player" /\ log[k][3] = i
                /\ log[l][2] \in {"fork", "promote"} /\ log[l][3] = i

\* C2: terminate_player(i), called in any state of the loop (the signal
\* handler calls it for every window whenever a signal arrives), returns
\* with the primary slot of window i cleared.
C2_SlotCleared ==
    pc = "loop" =>
       \A i \in Wins :
          LET w == terminate_player(World, i).windows[i]
          IN  /\ w.player_pid = 0
              /\ ~w.player_active
              /\ w.player_start_time = "zero"

\* C4: once shutdown has completed no player process is alive.
C4_NoPlayerAfterShutdown ==
    pc = "exited" =>
       \A p \in 1..MaxPids : ~(procs[p].alive /\ procs[p].kind = "player")

\* C6: a run of check_and_restart_players forks a player for every window
\* that had a valid handle and no active primary player when the run began,
\* unless fork() failed for that window or a termination signal ended the
\* run.
C6_Rearmed ==
    [][(/\ pc = "loop"
        /\ log' # <<>>
        /\ log'[1][1] = "check_and_restart_players")
          => \A i \in Wins :
                (windows[i].window # 0 /\ ~windows[i].player_active)
                   => \/ Logged(log', "fork", i)
                      \/ Logged(log', "fork_failed", i)
                      \/ Logged(log', "signal_handler", 0)]_vars

\* C8: a playlist with at most one item has the current index it was built
\* with (0), whatever has happened.
C8_NeverAdvanced ==
    /\ media_playlist.count <= 1 => media_playlist.current = 0
    /\ \A i \in DOMAIN windows :
          windows[i].monitor_playlist.count <= 1
             => windows[i].monitor_playlist.current = 0

\* A shuffled global playlist of one item after a playlist change.
C8_Witness ==
    /\ media_playlist.count = 1
    /\ media_playlist.shuffle
    /\ log # <<>>
    /\ log[1][1] = "playlist_change"

\* The index of a playlist changes only in a step that logs its advance.
OnlyByAdvance ==
    /\ media_playlist'.current # media_playlist.current
          => Logged(log', "playlist_next", 0)
    /\ \A i \in DOMAIN windows :
          (i \in DOMAIN windows'
             /\ windows'[i].monitor_playlist.current
                   # windows[i].monitor_playlist.current)
             => Logged(log', "monitor_playlist_next", i)

\* C9 as stated: the index changes only by an advance and, without shuffle,
\* never decreases.
C9_NeverDecreases ==
    [][/\ OnlyByAdvance
       /\ ~media_playlist.shuffle
             => media_playlist'.current >= media_playlist.current
       /\ \A i \in DOMAIN windows :
             (i \in DOMAIN windows' /\ ~windows[i].monitor_playlist.shuffle)
                => windows'[i].monitor_playlist.current
                      >= windows[i].monitor_playlist.current]_vars

\* A decrease of the index in one step that is the wrap-around of pl.
Wraps(pl, next) == pl.current = pl.count - 1 /\ next = 0

\* C9 amended: the index changes only by an advance and, without shuffle,
\* decreases only by the wrap-around from the last index to 0.
C9_DecreasesOnlyByWrap ==
    [][/\ OnlyByAdvance
       /\ (~media_playlist.shuffle
             /\ media_playlist'.current < media_playlist.current)
             => Wraps(media_playlist, media_playlist'.current)
       /\ \A i \in DOMAIN windows :
             (/\ i \in DOMAIN windows'
              /\ ~windows[i].monitor_playlist.shuffle
              /\ windows'[i].monitor_playlist.current
                    < windows[i].monitor_playlist.current)
                => Wraps(windows[i].monitor_playlist,
                         windows'[i].monitor_playlist.current)]_vars

\* The global playlist, not shuffled, has just wrapped around to 0.
C9_Witness ==
    /\ media_playlist.count > 1
    /\ ~media_playlist.shuffle
    /\ media_playlist.current = 0
    /\ Logged(log, "playlist_next", 0)

\* C13: with multi_monitor, a reconciliation that finds one monitor where
\* there were two leaves one window, and no player of the second window
\* runs.
C13_OrphanRemoved ==
    [][(multi_monitor /\ pc = "loop" /\ pc' = "loop"
           /\ monitors.count = 2 /\ window_count = 2 /\ monitors'.count = 1)
          => /\ window_count' = 1
             /\ Len(windows') = 1
             /\ \A p \in 1..MaxPids :
                   ~(procs'[p].alive /\ procs'[p].kind = "player"
                        /\ procs'[p].win = 2)]_vars

\* C14: between two operations of the loop there are as many windows as
\* monitors with multi_monitor, and one window without.
C14_WindowsMatchMonitors ==
    pc = "loop" =>
       window_count = (IF multi_monitor THEN monitors.count ELSE 1)

\* The file start_media_player takes for window i, given the windows and
\* the global playlist.
CurrentFile(ws, gp, i) ==
    IF per_monitor_content /\ ws[i].monitor_playlist.alloc
          /\ ws[i].monitor_playlist.count > 0
    THEN PathAt(ws[i].monitor_playlist, ws[i].monitor_playlist.current)
    ELSE IF gp.count > 0 THEN PathAt(gp, gp.current)
    ELSE NoFile

\* C15: without seamless transitions a playlist change terminates every
\* recorded player before it advances an index and before it starts a
\* player; a player it starts plays the file at the index after the
\* advance; after the terminations no window has a recorded player.
C15_TerminateAdvanceSpawn ==
    [][(~seamless_transitions /\ pc = "loop" /\ pc' = "loop"
           /\ log' # <<>> /\ log'[1][1] = "playlist_change")
          => /\ \A i \in Wins :
                   (windows[i].player_active /\ windows[i].player_pid > 0)
                      => /\ Logged(log', "terminate_player", i)
                         /\ ~terminate_all_players(World)
                                .procs[windows[i].player_pid].alive
             /\ \A j, k \in DOMAIN log' :
                   (log'[j][2] = "terminate_player"
                      /\ log'[k][2] \in {"playlist_next",
                                         "monitor_playlist_next", "fork"})
                      => j < k
             /\ \A j \in DOMAIN log' :
                   log'[j][2] = "fork"
                      => /\ j + 1 \in DOMAIN log'
                         /\ log'[j + 1][2] = "exec"
                         /\ <<1, log'[j + 1][3]>> =
                               CurrentFile(windows', media_playlist',
                                           log'[j][3])
             /\ \A i \in Wins :
                   /\ terminate_all_players(World).windows[i].player_pid = 0
                   /\ ~terminate_all_players(World).windows[i].player_active
       ]_vars

\* A change without transitions has terminated the player of the first
\* window, advanced the global playlist to its second item and started a
\* player on it.
C15_Witness ==
    /\ ~seamless_transitions
    /\ pc = "loop"
    /\ log # <<>>
    /\ log[1][1] = "playlist_change"
    /\ Logged(log, "terminate_player", 1)
    /\ Logged(log, "playlist_next", 0)
    /\ Logged(log, "fork", 1)
    /\ Logged(log, "exec", 2)
    /\ media_playlist.current = 1

\* C17: with seamless transitions, when the script of a playlist change
\* has started a new player for a window, the change ends with that
\* player recorded as the window's player and with the player recorded
\* before terminated.
C17_CommitsNewPlayer ==
    [][\A i \in Wins : \A p \in 1..MaxPids :
          (seamless_transitions /\ pc = "loop" /\ pc' = "loop"
              /\ log' # <<>> /\ log'[1][1] = "playlist_change"
              /\ ~procs[p].alive /\ procs'[p].alive
              /\ procs'[p].kind = "player" /\ procs'[p].win = i)
             => /\ windows'[i].player_pid = p
                /\ windows'[i].player_active
                /\ (windows[i].player_active /\ windows[i].player_pid > 0)
                      => ~procs'[windows[i].player_pid].alive]_vars

\* C18: between two operations no window has a fade process recorded, and
\* while the loop runs no fade script runs: start_fade_transition has
\* terminated the one it started before it returns.
C18_NoFadeRecorded ==
    /\ \A i \in DOMAIN windows :
          windows[i].fade_pid = 0 /\ ~windows[i].fade_active
    /\ pc = "loop" =>
          \A p \in 1..MaxPids : ~(procs[p].alive /\ procs[p].kind = "script")

\* A playlist change has run the fade script of the first window and made
\* its player the window's player.
C18_Witness ==
    /\ seamless_transitions
    /\ pc = "loop"
    /\ Logged(log, "fade_script", 1)
    /\ Logged(log, "promote", 1)
    /\ windows[1].fade_pid = 0

\* C22: once the program has shut down (running cleared, cleanup_and_exit
\* run) no player process is started for a window any more.
C22_NoSpawnAfterShutdown ==
    [][pc = "exited" =>
          \A p \in 1..MaxPids :
             (procs'[p].alive /\ procs'[p].kind = "player")
                => (procs[p].alive /\ procs[p].kind = "player")]_vars

\* What a detection finds when the monitors are as the detection new has
\* just stored them.
Unchanged(new) == [count |-> new.count, moved |-> FALSE]

\* C23: when the periodic poll finds that the geometry of a monitor has
\* changed (and the monitors do not change again within the tick), every
\* window that has a monitor is flagged for the restart of its player at
\* the end of the poll.
C23_PollReconciles ==
    pc = "loop" =>
       \A new \in Detections :
          (new.count = monitors.count /\ new.moved) =>
             \A i \in 1..window_count :
                (i <= monitors.count /\ windows[i].window # 0) =>
                   screen_poll(Begin("screen_poll"), new, Unchanged(new),
                               TRUE).windows[i].needs_resize

\* Two RRScreenChangeNotify events dispatched one after the other, no time
\* passing between them, each detecting a change.
TwoChanges(d1, d2) ==
    handle_screen_resize(
        [handle_screen_resize(Begin("screen_change_event"), d1, TRUE, "ok")
            EXCEPT !.log = <<>>],
        d2, TRUE, "ok")

\* C24: a change of the monitors detected right after a reconciliation
\* triggers no second reconciliation: the second leaves the windows, their
\* restart flags and their number as the first left them.
C24_Debounced ==
    pc = "loop" =>
       \A d1, d2 \in Detections :
          (monitors_differ(World, d1) /\ (d2.count # d1.count \/ d2.moved)) =>
             LET once == handle_screen_resize(Begin("screen_change_event"),
                                              d1, TRUE, "ok")
             IN  /\ TwoChanges(d1, d2).windows = once.windows
                 /\ TwoChanges(d1, d2).window_count = once.window_count

\* What the health check of the loop can find, as in CheckAndRestart.
Checks ==
    {o \in [Wins -> CheckOutcomes] :
        \A i \in Wins : o[i].dies => windows[i].player_start_time = "expired"}

\* The history l has no termination and no start of a player of window i.
Untouched(l, i) ==
    \A what \in {"terminate_player", "resize_restart", "fork", "fork_failed",
                 "no_media_file", "invalid_window"} : ~Logged(l, what, i)

\* The health check has left window i and the process pid alone.
Spared(W, i, pid) ==
    \/ W.pc = "exited"
    \/ /\ W.windows[i] = windows[i]
       /\ W.procs[pid] = procs[pid]
       /\ Untouched(W.log, i)

\* C27: check_and_restart_players leaves alone a window whose player was
\* started less than 5 seconds before (by the seconds of time()): the
\* player is not terminated and none is started, whether the player is
\* alive or not and whether needs_resize is set or not.
C27_GraceWindow ==
    pc = "loop" =>
       \A o \in Checks, i \in Wins :
          (windows[i].player_active /\ windows[i].player_pid > 0
              /\ windows[i].player_start_time = "recent")
             => Spared(check_and_restart_players(
                           Begin("check_and_restart_players"), o),
                       i, windows[i].player_pid)

\* A health check has restarted the player of the second window and has
\* passed over the first window, whose player, started less than 5 seconds
\* before, has exited and whose needs_resize is set.
C27_Witness ==
    /\ pc = "loop"
    /\ log # <<>>
    /\ log[1][1] = "check_and_restart_players"
    /\ Logged(log, "fork", 2)
    /\ Untouched(log, 1)
    /\ windows[1].player_active
    /\ windows[1].player_start_time = "recent"
    /\ windows[1].needs_resize
    /\ ~Alive(World, windows[1].player_pid)

\* The health check has restarted the player of window i for a resize.
Restarted(W, i) ==
    \/ W.pc = "exited"
    \/ /\ Logged(W.log, "resize_restart", i)
       /\ Logged(W.log, "terminate_player", i)
       /\ Logged(W.log, "fork", i)
       /\ W.windows[i].player_active
       /\ Alive(W, W.windows[i].player_pid)
       /\ W.procs[W.windows[i].player_pid].win = i
       /\ ~W.windows[i].needs_resize

\* C28: resize_window_for_monitor sets needs_resize of a window that has
\* a handle; a check_and_restart_players that finds the player of a
\* window with needs_resize alive and started 5 seconds before or
\* earlier terminates it, starts a player on the window (fork
\* succeeding) and clears needs_resize.
C28_ResizeRestart ==
    pc = "loop" =>
       \A i \in Wins :
          /\ (i <= monitors.count /\ windows[i].window # 0)
                => resize_window_for_monitor(World, i, i)
                      .windows[i].needs_resize
          /\ \A o \in Checks :
                (windows[i].needs_resize /\ windows[i].player_active
                    /\ is_process_healthy(World, windows[i].player_pid)
                    /\ windows[i].player_start_time # "recent"
                    /\ o[i].fork = "ok")
                   => Restarted(check_and_restart_players(
                                    Begin("check_and_restart_players"), o),
                                i)

\* A health check has restarted the player of the first window for a
\* resize and has cleared needs_resize.
C28_Witness ==
    /\ pc = "loop"
    /\ Logged(log, "resize_restart", 1)
    /\ Logged(log, "terminate_player", 1)
    /\ Logged(log, "fork", 1)
    /\ windows[1].window # 0
    /\ ~windows[1].needs_resize
    /\ windows[1].player_start_time = "recent"
    /\ Alive(World, windows[1].player_pid)

\* C29: is_process_healthy(pid) is false exactly when pid <= 0 or no
\* process pid exists; for a process that exists it is true whatever
\* kill(pid, 0) and the reads of /proc/<pid> give.
C29_HealthIsExistence ==
    \A pid \in -1..MaxPids :
       /\ \A pr \in Probes(Alive(World, pid)) :
             process_health(pid, pr) <=> (pid > 0 /\ Alive(World, pid))
       /\ is_process_healthy(World, pid) <=> (pid > 0 /\ Alive(World, pid))

\* A health check, 5 seconds or more after the players were started, has
\* found the player of the first window, which runs, healthy and has left
\* it, and has found the player of the second window, which has exited,
\* not healthy and has started another.
C29_Witness ==
    /\ pc = "loop"
    /\ log # <<>>
    /\ log[1][1] = "check_and_restart_players"
    /\ Untouched(log, 1)
    /\ Logged(log, "fork", 2)
    /\ windows[1].player_active
    /\ windows[1].player_start_time = "settled"
    /\ Alive(World, windows[1].player_pid)

\* C30: with seamless transitions, a playlist change whose fade script
\* has run for a window without its player being made the window's player
\* (no pid was read from the pid file) terminates the window's player and
\* starts one on the file at the advanced index.
C30_FallbackRespawn ==
    [][\A i \in Wins :
          (seamless_transitions /\ pc = "loop" /\ pc' = "loop"
              /\ log' # <<>> /\ log'[1][1] = "playlist_change"
              /\ Logged(log', "fade_script", i)
              /\ ~Logged(log', "promote", i))
             => /\ Logged(log', "terminate_player", i)
                /\ Logged(log', "fork", i)
                /\ Logged(log', "exec",
                          CurrentFile(windows', media_playlist', i)[2])]_vars

\* C36: whenever the loop is between two steps, every live player process,
\* started by start_media_player or by a fade script, is the recorded
\* player of the window it plays on.
C36_NoUntrackedPlayer ==
    pc = "loop" =>
       \A p \in 1..MaxPids :
          (procs[p].alive /\ procs[p].kind = "player")
             => /\ procs[p].win \in DOMAIN windows
                /\ windows[procs[p].win].player_active
                /\ windows[procs[p].win].player_pid = p

\* The world W more than 5 seconds later, at the start of a health check.
Later(W) ==
    [W EXCEPT !.op = "check_and_restart_players",
              !.log = <<>>,
              !.windows = [k \in DOMAIN W.windows |->
                             [W.windows[k] EXCEPT
                                 !.player_start_time = Aged(@, "short")]]]

\* Every spawn succeeds, every fade script writes its pid file in time, no
\* player exits during a health check.
AllGoesWell == [i \in Wins |-> [fork |-> "ok", dies |-> FALSE]]

\* W has started a player for window i otherwise than for the resize; the
\* health check after it does not restart the player for the resize.
NoSecondRestart(W, i) ==
    (/\ W.pc = "loop"
     /\ Logged(W.log, "fork", i) \/ Logged(W.log, "promote", i)
     /\ ~Logged(W.log, "resize_restart", i)
     /\ W.windows[i].player_active
     /\ Alive(W, W.windows[i].player_pid))
       => ~Logged(check_and_restart_players(Later(W), AllGoesWell).log,
                  "resize_restart", i)

\* C37: when a window with a player is flagged for a restart after a resize
\* and its player is started anew by the restart of an unhealthy player, by the
\* playlist change or by a fade transition, the health check that follows
\* does not terminate and restart the new player on account of the flag.
C37_OneRestartPerResize ==
    pc = "loop" =>
       \A i \in Wins :
          (windows[i].needs_resize /\ windows[i].player_active
              /\ windows[i].player_pid > 0) =>
             /\ NoSecondRestart(
                    check_and_restart_players(
                        Begin("check_and_restart_players"), AllGoesWell), i)
             /\ NoSecondRestart(
                    playlist_change(Begin("playlist_change"),
                                    [k \in Wins |-> "written"],
                                    [k \in Wins |-> 0], 0,
                                    [k \in Wins |-> "ok"]), i)

\* Window i of W has a handle and a live recorded player.
Playing(W, i) ==
    \/ W.pc = "exited"
    \/ /\ i \in DOMAIN W.windows
       /\ W.windows[i].window # 0
       /\ W.windows[i].player_active
       /\ Alive(W, W.windows[i].player_pid)
       /\ W.procs[W.windows[i].player_pid].win = i

\* C38: with multi_monitor, when handle_screen_resize finds more monitors
\* than windows and creates a window for each additional monitor (the
\* creation and fork() succeeding, a media file being there), every window
\* it has created has a player when it returns.
C38_NewSurfacePlays ==
    pc = "loop" =>
       \A new \in Detections :
          (multi_monitor /\ new.count > window_count
              /\ media_playlist.count > 0 /\ FreePids(World) # {}) =>
             \A i \in (window_count + 1)..new.count :
                Playing(handle_screen_resize(Begin("screen_change_event"),
                                             new, TRUE, "ok"), i)

\* The playlist every window plays has a single item.
SingleItem ==
    IF per_monitor_content
    THEN \A i \in Wins : /\ windows[i].monitor_playlist.alloc
                         /\ windows[i].monitor_playlist.count = 1
    ELSE media_playlist.count = 1

\* C39: when the playlist duration elapses and the playlist has a single
\* item, the change leaves every window with a running player as it is:
\* the player is not terminated and none is started, with seamless
\* transitions and without.
C39_SingleItemUntouched ==
    (pc = "loop" /\ SingleItem) =>
       \A o \in IF seamless_transitions THEN [Wins -> FadeOutcomes]
                ELSE {[k \in Wins |-> "none"]} :
          \A i \in Wins :
             RecordedAlive(i) =>
                Spared(playlist_change(Begin("playlist_change"), o,
                                       [k \in Wins |-> 0], 0,
                                       [k \in Wins |-> "ok"]),
                       i, windows[i].player_pid)

\* The health check has kept the player pid of window i.
Kept(W, i, pid) ==
    \/ W.pc = "exited"
    \/ /\ W.windows[i].player_pid = pid
       /\ W.windows[i].player_active
       /\ W.procs[pid] = procs[pid]
       /\ Untouched(W.log, i)

\* C40: check_and_restart_players leaves the player_pid and player_active
\* of a window as they are when the recorded player is alive (and stays
\* alive during the check) and needs_resize is clear, whenever the player
\* was started: less than 5 seconds, more than 5 seconds or more than ten
\* minutes before.
C40_HealthyPlayerKept ==
    pc = "loop" =>
       \A o \in Checks, i \in Wins :
          (RecordedAlive(i) /\ ~windows[i].needs_resize /\ ~o[i].dies) =>
             Kept(check_and_restart_players(
                      Begin("check_and_restart_players"), o),
                  i, windows[i].player_pid)

\* A health check has started a player for the second window and has left
\* the player of the first window, started more than 5 seconds before and
\* alive, as it was.
C40_Witness ==
    /\ pc = "loop"
    /\ log # <<>>
    /\ log[1][1] = "check_and_restart_players"
    /\ Logged(log, "fork", 2)
    /\ Untouched(log, 1)
    /\ RecordedAlive(1)
    /\ ~windows[1].needs_resize
    /\ windows[1].player_start_time = "settled"

\* The index of pl is that of one of its items.
InRange(pl) ==
    pl.count > 0 =>
       /\ pl.current \in 0..(pl.count - 1)
       /\ pl.count <= MAX_PLAYLIST
       /\ PathAt(pl, pl.current) \in {pl.paths[k] : k \in DOMAIN pl.paths}

\* The files of the playlists.
Items ==
    {media_playlist.paths[k] : k \in DOMAIN media_playlist.paths}
       \cup UNION {{windows[i].monitor_playlist.paths[k] :
                       k \in DOMAIN windows[i].monitor_playlist.paths} :
                   i \in DOMAIN windows}

----------------------------------------------------------------------------
(* The shared-playlist model: several windows on the global playlist *)

\* main before "Start media players" with multi_monitor and without
\* per_monitor_content, with and without seamless transitions.
SharedInit ==
    /\ multi_monitor = TRUE
    /\ per_monitor_content = FALSE
    /\ seamless_transitions \in BOOLEAN
    /\ \E n \in 1..MaxMonitors : monitors = [count |-> n]
    /\ window_count = monitors.count
    /\ \E sh \in BOOLEAN, c \in 1..MaxCount : media_playlist = Playlist(c, sh)
    /\ windows = [i \in 1..window_count |-> NewWindow(i)]
    /\ procs = [p \in 1..MaxPids |-> NoProc]
    /\ pid_file = [i \in 1..MaxMonitors |-> 0]
    /\ pc = "start"
    /\ log = <<>>
    /\ sd = SdIdle /\ lk = LkIdle /\ adv = AdvIdle /\ bd = BdIdle /\ Resting

SharedNext == StartPlayers \/ PlaylistChange \/ ProcessExits

SpecShared == SharedInit /\ [][SharedNext]_vars

\* C16: with multi_monitor and without per_monitor_content, the player a
\* playlist change has started for a window (by start_media_player, or by
\* the fade script whose player was made the window's player) plays the
\* file at the current index of the global playlist.
C16_SharedIndex ==
    (multi_monitor /\ ~per_monitor_content /\ pc = "loop"
        /\ log # <<>> /\ log[1][1] = "playlist_change")
       => /\ \A j \in DOMAIN log :
                log[j][2] = "exec"
                   => <<1, log[j][3]>> =
                         PathAt(media_playlist, media_playlist.current)
          /\ \A j, k \in DOMAIN log :
                (log[j][2] = "promote" /\ log[k][2] = "fade_script"
                    /\ log[k][3] = log[j][3])
                   => <<1, log[k + 1][3]>> =
                         PathAt(media_playlist, media_playlist.current)

----------------------------------------------------------------------------
(* The surface model: a window that XCreateWindow did not give *)

\* The loop with multi_monitor and a global playlist of two files, with
\* and without seamless transitions, after a second monitor was connected
\* and create_window_for_monitor got no window for it from XCreateWindow:
\* the first window has its player, the second has no handle.
SurfInit ==
    /\ multi_monitor = TRUE
    /\ per_monitor_content = FALSE
    /\ seamless_transitions \in BOOLEAN
    /\ monitors = [count |-> 2]
    /\ window_count = 2
    /\ media_playlist = Playlist(2, FALSE)
    /\ windows = <<[NewWindow(1) EXCEPT !.player_pid = 1,
                                        !.player_active = TRUE,
                                        !.player_start_time = "recent"],
                   NewWindow(0)>>
    /\ procs = [p \in 1..MaxPids |->
                  IF p = 1
                  THEN [kind |-> "player", win |-> 1, alive |-> TRUE,
                        primary |-> TRUE]
                  ELSE NoProc]
    /\ pid_file = [i \in 1..MaxMonitors |-> 0]
    /\ pc = "loop"
    /\ log = <<>>
    /\ sd = SdIdle /\ lk = LkIdle /\ adv = AdvIdle /\ bd = BdIdle /\ Resting

SurfNext ==
    \/ PlaylistChange
    \/ CheckAndRestart
    \/ ProcessExits
    \/ TimePasses

SpecSurfaces == SurfInit /\ [][SurfNext]_vars

\* C34: a window without a handle has no process: no player and no fade
\* script runs for it, and none is recorded in it.
C34_NoProcessWithoutHandle ==
    \A i \in DOMAIN windows :
       windows[i].window = 0 =>
          /\ windows[i].player_pid = 0
          /\ ~windows[i].player_active
          /\ windows[i].fade_pid = 0
          /\ ~windows[i].fade_active
          /\ \A p \in 1..MaxPids : ~(procs[p].alive /\ procs[p].win = i)

\* A playlist change has run, with a transition for the first window,
\* while the second window has no handle.
C34_Witness ==
    /\ pc = "loop"
    /\ window_count = 2
    /\ windows[2].window = 0
    /\ seamless_transitions
    /\ Logged(log, "fade_script", 1)
    /\ Logged(log, "promote", 1)

----------------------------------------------------------------------------
(* The lock model: instances of the program and /tmp/motionwall.lock *)

\* lk.inst[a] is where instance a is: "idle" (not started), "opened"
\* (create_lock_file has opened the file), "running" (it holds the lock),
\* "refused" (flock failed, the instance has ended), "unlocked" and "closed"
\* (cleanup_and_exit has run flock(LOCK_UN), close), "exited".  lk.fd[a] is
\* the inode instance a has open (0: none), lk.path the inode the path
\* names (0: no such file), lk.holder[n] the instance whose open file holds
\* the lock on inode n (0: none), lk.inodes the number of inodes created.
LkStart ==
    [pc |-> "run",
     inst |-> [a \in 1..MaxInstances |-> "idle"],
     fd |-> [a \in 1..MaxInstances |-> 0],
     path |-> 0,
     holder |-> [n \in 1..MaxInodes |-> 0],
     inodes |-> 0]

\* The supervisor's variables while another model runs: one window, an
\* empty global playlist, no process.
Parked ==
    /\ multi_monitor = FALSE
    /\ per_monitor_content = TRUE
    /\ seamless_transitions = FALSE
    /\ media_playlist = Playlist(0, FALSE)
    /\ monitors = [count |-> 1]
    /\ windows = <<NewWindow(1)>>
    /\ window_count = 1
    /\ procs = [p \in 1..MaxPids |-> NoProc]
    /\ pid_file = [i \in 1..MaxMonitors |-> 0]
    /\ pc = "loop"
    /\ log = <<>>

LkInit ==
    Parked /\ lk = LkStart /\ sd = SdIdle /\ adv = AdvIdle /\ bd = BdIdle /\ Resting

LkKeep == UNCHANGED <<supVars, sd, adv, bd, st, tp, ev, rg>>

\* create_lock_file: open("/tmp/motionwall.lock", O_CREAT | O_RDWR).
LkOpen(a) ==
    /\ lk.inst[a] = "idle"
    /\ \/ /\ lk.path # 0
          /\ lk' = [lk EXCEPT !.inst[a] = "opened", !.fd[a] = lk.path]
       \/ /\ lk.path = 0
          /\ lk.inodes < MaxInodes
          /\ lk' = [lk EXCEPT !.inst[a] = "opened",
                              !.fd[a] = lk.inodes + 1,
                              !.path = lk.inodes + 1,
                              !.inodes = lk.inodes + 1]
    /\ LkKeep

\* create_lock_file: flock(fd, LOCK_EX | LOCK_NB); on failure close(fd) and
\* main returns 1.
LkFlock(a) ==
    /\ lk.inst[a] = "opened"
    /\ lk' = IF lk.holder[lk.fd[a]] = 0
             THEN [lk EXCEPT !.inst[a] = "running", !.holder[lk.fd[a]] = a]
             ELSE [lk EXCEPT !.inst[a] = "refused", !.fd[a] = 0]
    /\ LkKeep

\* cleanup_and_exit: flock(lock_fd, LOCK_UN).
LkUnlock(a) ==
    /\ lk.inst[a] = "running"
    /\ lk' = [lk EXCEPT !.inst[a] = "unlocked", !.holder[lk.fd[a]] = 0]
    /\ LkKeep

\* cleanup_and_exit: close(lock_fd).
LkClose(a) ==
    /\ lk.inst[a] = "unlocked"
    /\ lk' = [lk EXCEPT !.inst[a] = "closed", !.fd[a] = 0]
    /\ LkKeep

\* cleanup_and_exit: unlink("/tmp/motionwall.lock"), whatever file the path
\* names by now; lock_fd = -1; exit(0).
LkUnlink(a) ==
    /\ lk.inst[a] = "closed"
    /\ lk' = [lk EXCEPT !.inst[a] = "exited", !.path = 0]
    /\ LkKeep

\* main returns 1 after it has taken the lock (no shell, no player): the
\* process ends without cleanup_and_exit, the kernel closes the file, which
\* releases the lock; the file stays.
LkAbort(a) ==
    /\ lk.inst[a] = "running"
    /\ lk' = [lk EXCEPT !.inst[a] = "exited", !.holder[lk.fd[a]] = 0,
                        !.fd[a] = 0]
    /\ LkKeep

LkNext ==
    \E a \in 1..MaxInstances :
       \/ LkOpen(a)
       \/ LkFlock(a)
       \/ LkUnlock(a)
       \/ LkClose(a)
       \/ LkUnlink(a)
       \/ LkAbort(a)

SpecLock == LkInit /\ [][LkNext]_vars

\* C5: at most one instance holds the lock and runs.
C5_OneInstance ==
    lk.pc = "run" =>
       Cardinality({a \in 1..MaxInstances : lk.inst[a] = "running"}) <= 1

----------------------------------------------------------------------------
(* The playlist model: the advance operations on their own *)

\* adv.start is the index each playlist started with, adv.steps the number
\* of advances applied to it (g: the global playlist, m: the playlist of
\* window 1).
AdvInit ==
    /\ multi_monitor = FALSE
    /\ per_monitor_content = TRUE
    /\ seamless_transitions = FALSE
    /\ monitors = [count |-> 1]
    /\ window_count = 1
    /\ procs = [p \in 1..MaxPids |-> NoProc]
    /\ pid_file = [i \in 1..MaxMonitors |-> 0]
    /\ pc = "loop"
    /\ log = <<>>
    /\ \E sh \in BOOLEAN, c \in 1..MaxItems, d \in 1..MaxItems :
          \E k \in 0..(c - 1), l \in 0..(d - 1) :
             /\ media_playlist = [Playlist(c, sh) EXCEPT !.current = k]
             /\ windows = <<[NewWindow(1) EXCEPT !.monitor_playlist =
                               [Playlist(d, sh) EXCEPT !.current = l]]>>
             /\ adv = [pc |-> "run", start |-> [g |-> k, m |-> l],
                       steps |-> [g |-> 0, m |-> 0]]
    /\ sd = SdIdle /\ lk = LkIdle /\ bd = BdIdle /\ Resting

AdvRand == IF media_playlist.shuffle THEN 0..(MaxItems - 1) ELSE {0}

\* playlist_next(), at most count times.
AdvGlobal ==
    /\ adv.steps.g < media_playlist.count
    /\ \E r \in AdvRand : SetWorld(playlist_next(Begin("advance"), r))
    /\ adv' = [adv EXCEPT !.steps.g = @ + 1]
    /\ UNCHANGED <<sd, lk, bd, st, tp, ev, rg>>

\* monitor_playlist_next(0), at most count times.
AdvMonitor ==
    /\ adv.steps.m < windows[1].monitor_playlist.count
    /\ \E r \in AdvRand : SetWorld(monitor_playlist_next(Begin("advance"), 1, r))
    /\ adv' = [adv EXCEPT !.steps.m = @ + 1]
    /\ UNCHANGED <<sd, lk, bd, st, tp, ev, rg>>

AdvNext == AdvGlobal \/ AdvMonitor

SpecPlaylist == AdvInit /\ [][AdvNext]_vars

\* C7: without shuffle, count advances bring the index of the global
\* playlist and that of a monitor's playlist back to where it started.
C7_RoundTrip ==
    adv.pc = "run" =>
       /\ (~media_playlist.shuffle /\ adv.steps.g = media_playlist.count)
             => media_playlist.current = adv.start.g
       /\ (~windows[1].monitor_playlist.shuffle
             /\ adv.steps.m = windows[1].monitor_playlist.count)
             => windows[1].monitor_playlist.current = adv.start.m

\* Both playlists have the most items, started in the middle and have been
\* advanced count times.
C7_Witness ==
    /\ adv.pc = "run"
    /\ ~media_playlist.shuffle
    /\ media_playlist.count = MaxItems
    /\ adv.start.g > 0
    /\ adv.steps.g = MaxItems
    /\ windows[1].monitor_playlist.count = MaxItems
    /\ adv.start.m > 0
    /\ adv.steps.m = MaxItems

----------------------------------------------------------------------------
(* The build model: create_playlist and create_monitor_playlists *)

\* A path is [kind, files]: kind is what stat() finds ("directory", "file",
\* "missing"); files[e] is the number of files in the directory with the
\* e-th extension of extensions[], and files[NumExtensions + 1] the number
\* of files with any other extension.  <<e, k>> is the k-th of them in the
\* order of glob(); <<0, 2>> is the path itself (a single file).
Recognized == 1..NumExtensions

Unrecognized == NumExtensions + 1

SingleFile == <<0, 2>>

Counts(s) ==
    [e \in 1..Unrecognized |-> Cardinality({j \in DOMAIN s : s[j] = e})]

Directories ==
    {Counts(s) : s \in UNION {[1..n -> 1..Unrecognized] : n \in 0..MaxFiles}}

Paths ==
    [kind : {"directory"}, files : Directories]
       \cup [kind : {"file", "missing"}, files : {Counts(<<>>)}]

\* glob(pattern, flags, NULL, &glob_result) for the pattern of extension e:
\* pathv is gl_pathv before the call.  The matches come in sorted order;
\* with GLOB_APPEND they are appended to the earlier ones; without a
\* match the result is GLOB_NOMATCH and gl_pathv is as it would be with no
\* match.
glob(path, e, append, pathv) ==
    LET matches == [k \in 1..path.files[e] |-> <<e, k>>]
        before == IF append THEN pathv ELSE <<>>
    IN  [rc |-> IF matches = <<>> THEN "GLOB_NOMATCH" ELSE "0",
         gl_pathv |-> before \o matches]

\* for (i = 0; i < gl_pathc && count < MAX_PLAYLIST; i++) paths[count++] =
\* gl_pathv[i]
RECURSIVE copy_from(_, _, _)
copy_from(paths, gl_pathv, i) ==
    IF i > Len(gl_pathv) \/ Len(paths) >= MAX_PLAYLIST
    THEN paths
    ELSE copy_from(Append(paths, gl_pathv[i]), gl_pathv, i + 1)

\* for (ext = 0; ext < ext_count; ext++): the loop over extensions[] of
\* both functions; the copy loop starts at gl_pathv[0] each time.
RECURSIVE scan_from(_, _, _, _)
scan_from(path, ext, gl_pathv, paths) ==
    IF ext > NumExtensions
    THEN paths
    ELSE LET g == glob(path, ext, ext # 1, gl_pathv)
         IN  scan_from(path, ext + 1, g.gl_pathv,
                 IF g.rc = "0" THEN copy_from(paths, g.gl_pathv, 1)
                 ELSE paths)

found(path) ==
    IF path.kind = "directory" THEN scan_from(path, 1, <<>>, <<>>)
    ELSE <<SingleFile>>

create_playlist(W, path) ==
    IF path.kind = "missing"
    THEN [W EXCEPT !.media_playlist.count = 0,
                   !.media_playlist.current = 0]
    ELSE [W EXCEPT !.media_playlist.paths = found(path),
                   !.media_playlist.count = Len(found(path)),
                   !.media_playlist.current = 0]

\* The loop over the monitors; paths is monitor_paths, never empty here.
RECURSIVE monitor_playlists_from(_, _, _)
monitor_playlists_from(W, monitor, paths) ==
    IF monitor > W.monitors.count \/ monitor > W.window_count
    THEN W
    ELSE LET monitor_path == paths[((monitor - 1) % Len(paths)) + 1]
         IN  monitor_playlists_from(
                 [W EXCEPT !.windows[monitor].monitor_playlist =
                     IF monitor_path.kind = "missing"
                     THEN NullPlaylist
                     ELSE [alloc |-> TRUE,
                           paths |-> found(monitor_path),
                           count |-> Len(found(monitor_path)),
                           current |-> 0,
                           shuffle |-> W.media_playlist.shuffle]],
                 monitor + 1, paths)

create_monitor_playlists(W, paths) ==
    IF ~per_monitor_content \/ paths = <<>> THEN W
    ELSE monitor_playlists_from(W, 1, paths)

\* bd.path is the path given; bd.built is which playlists have been built.
BdInit ==
    /\ Parked
    /\ \E p \in Paths : bd = [pc |-> "run", path |-> p, built |-> {}]
    /\ sd = SdIdle /\ lk = LkIdle /\ adv = AdvIdle /\ Resting

\* main: create_playlist(config.media_path).
BdCreatePlaylist ==
    /\ "global" \notin bd.built
    /\ SetWorld(create_playlist(Begin("create_playlist"), bd.path))
    /\ bd' = [bd EXCEPT !.built = @ \cup {"global"}]
    /\ UNCHANGED <<sd, lk, adv, st, tp, ev, rg>>

\* main: create_monitor_playlists(config.monitor_paths, 1).
BdCreateMonitorPlaylists ==
    /\ "monitor" \notin bd.built
    /\ SetWorld(create_monitor_playlists(Begin("create_monitor_playlists"),
                                         <<bd.path>>))
    /\ bd' = [bd EXCEPT !.built = @ \cup {"monitor"}]
    /\ UNCHANGED <<sd, lk, adv, st, tp, ev, rg>>

BdNext == BdCreatePlaylist \/ BdCreateMonitorPlaylists

SpecBuild == BdInit /\ [][BdNext]_vars

\* The recognized files of a directory, and how often a file is in a
\* playlist.
RecognizedFiles(path) ==
    {f \in Recognized \X (1..MaxFiles) : f[2] <= path.files[f[1]]}

Times(pl, f) == Cardinality({j \in DOMAIN pl.paths : pl.paths[j] = f})

ExactlyRecognized(pl, path) ==
    /\ pl.count = Cardinality(RecognizedFiles(path))
    /\ Len(pl.paths) = pl.count
    /\ \A f \in RecognizedFiles(path) : Times(pl, f) = 1

\* C10: a playlist built from a directory holds exactly the files with a
\* recognized extension, each once, the global playlist and a monitor's.
C10_ExactlyRecognized ==
    (bd.pc = "run" /\ bd.path.kind = "directory") =>
       /\ "global" \in bd.built => ExactlyRecognized(media_playlist, bd.path)
       /\ "monitor" \in bd.built =>
             ExactlyRecognized(windows[1].monitor_playlist, bd.path)

----------------------------------------------------------------------------
(* The startup model: main from the lock to the loop *)

\* The content directories of the startup model: every file has the first
\* recognized extension or an unrecognized one.
StPaths ==
    {p \in Paths : \A e \in 2..NumExtensions : p.files[e] = 0}

\* config.monitor_paths when main takes the lock.  In per-monitor mode the
\* command line gives, after the first path, nothing or the first path
\* again (both leave the first path alone in the list: "usar el principal
\* para todos"), or another path.
StExtras(media_path) ==
    IF per_monitor_content
    THEN {<<media_path>>} \cup
            {<<[name |-> 2, kind |-> p.kind, files |-> p.files]>> :
                p \in StPaths}
    ELSE {<<>>}

\* st.pc is the statement main is at; st.status the exit status of the
\* process ("none" while it runs); st.cleaned whether cleanup_and_exit has
\* run; st.cause the condition that ended the startup; st.lock whether the
\* lock file exists and this instance holds it.
StInit ==
    /\ multi_monitor \in BOOLEAN
    /\ per_monitor_content \in BOOLEAN
    /\ seamless_transitions = FALSE
    /\ media_playlist = Playlist(0, FALSE)
    /\ monitors = [count |-> 0]
    /\ windows = <<>>
    /\ window_count = 0
    /\ procs = [p \in 1..MaxPids |-> NoProc]
    /\ pid_file = [i \in 1..MaxMonitors |-> 0]
    /\ pc = "main"
    /\ log = <<>>
    /\ \E p \in StPaths :
          \E x \in StExtras([name |-> 1, kind |-> p.kind,
                              files |-> p.files]) :
             st = [pc |-> "lock", status |-> "none", cleaned |-> FALSE,
                   cause |-> "none", lock |-> FALSE,
                   media_path |-> [name |-> 1, kind |-> p.kind,
                                   files |-> p.files],
                   monitor_paths |-> x]
    /\ sd = SdIdle /\ lk = LkIdle /\ adv = AdvIdle /\ bd = BdIdle
    /\ tp = Idle /\ ev = Idle /\ rg = Idle

\* return 1 or exit(1) in main: the process ends, cleanup_and_exit has not
\* run.
StFail(cause) ==
    [st EXCEPT !.pc = "exited", !.status = "1", !.cause = cause]

\* cleanup_and_exit() called by main: it ends in exit(0), the return 1 that
\* follows the call is not reached.
StCleanup(cause) ==
    [st EXCEPT !.pc = "exited", !.status = "0", !.cleaned = TRUE,
               !.cause = cause, !.lock = FALSE]

\* main: lock_fd = create_lock_file(); if (lock_fd < 0) return 1.  The
\* shell and the player are there.
StLock ==
    /\ st.pc = "lock"
    /\ \E free \in BOOLEAN :
          st' = IF free THEN [st EXCEPT !.pc = "x11", !.lock = TRUE]
                ELSE StFail("lock_held")
    /\ UNCHANGED <<supVars, sd, lk, adv, bd, tp, ev, rg>>

\* init_x11: XOpenDisplay; exit(1) when it returns NULL.
StInitX11 ==
    /\ st.pc = "x11"
    /\ \E opened \in BOOLEAN :
          st' = IF opened THEN [st EXCEPT !.pc = "monitors"]
                ELSE StFail("no_display")
    /\ UNCHANGED <<supVars, sd, lk, adv, bd, tp, ev, rg>>

\* main: if (!detect_monitors()) cleanup_and_exit().
StDetectMonitors ==
    /\ st.pc = "monitors"
    /\ \E n \in 0..MaxMonitors :
          IF n = 0
          THEN /\ SetWorld(cleanup_and_exit(Begin("main")))
               /\ st' = StCleanup("no_monitors")
          ELSE /\ SetWorld([Begin("main") EXCEPT !.monitors = [count |-> n]])
               /\ st' = [st EXCEPT !.pc = "playlists"]
    /\ UNCHANGED <<sd, lk, adv, bd, tp, ev, rg>>

\* main: "Create playlist(s)".  In per-monitor mode no playlist is built
\* here (the first path is in monitor_paths already, or is put in front);
\* otherwise the global playlist is built, and an empty one ends the
\* startup.
StPlaylists ==
    /\ st.pc = "playlists"
    /\ IF per_monitor_content /\ Len(st.monitor_paths) > 0
       THEN /\ st' = [st EXCEPT !.pc = "windows",
                         !.monitor_paths =
                             IF \E k \in DOMAIN @ : @[k] = st.media_path
                             THEN @ ELSE <<st.media_path>> \o @]
            /\ UNCHANGED supVars
       ELSE LET W == create_playlist(Begin("main"), st.media_path)
            IN  IF W.media_playlist.count = 0
                THEN /\ SetWorld(cleanup_and_exit(W))
                     /\ st' = StCleanup("empty_playlist")
                ELSE /\ SetWorld(W)
                     /\ st' = [st EXCEPT !.pc = "windows"]
    /\ UNCHANGED <<sd, lk, adv, bd, tp, ev, rg>>

\* The loop of main that creates the windows: the first window that is not
\* created ends it.
RECURSIVE create_windows_from(_, _, _)
create_windows_from(W, i, created) ==
    IF i > W.window_count THEN W
    ELSE IF ~created[i]
    THEN create_window_for_monitor(W, i, FALSE)
    ELSE create_windows_from(create_window_for_monitor(W, i, TRUE),
                             i + 1, created)

\* main: window_count, calloc (allocated = FALSE: it returns NULL) and
\* "Create windows"; the primary monitor is the first.
StWindows ==
    /\ st.pc = "windows"
    /\ \E allocated \in BOOLEAN :
       \E created \in [1..(IF multi_monitor THEN monitors.count ELSE 1)
                          -> BOOLEAN] :
          LET n == IF multi_monitor THEN monitors.count ELSE 1
              W == [Begin("main") EXCEPT
                       !.window_count = n,
                       !.windows = IF allocated
                                   THEN [i \in 1..n |-> NewWindow(0)]
                                   ELSE <<>>]
          IN  IF ~allocated
              THEN /\ (\A i \in 1..n : created[i])
                   /\ SetWorld([W EXCEPT !.pc = "exited"])
                   /\ st' = StCleanup("no_memory")
              ELSE IF \E i \in 1..n : ~created[i]
              THEN /\ SetWorld(cleanup_and_exit(
                                   create_windows_from(W, 1, created)))
                   /\ st' = StCleanup("no_window")
              ELSE /\ SetWorld(create_windows_from(W, 1, created))
                   /\ st' = [st EXCEPT !.pc = "monitor_playlists"]
    /\ UNCHANGED <<sd, lk, adv, bd, tp, ev, rg>>

\* main: "Setup per-monitor playlists if needed".
StMonitorPlaylists ==
    /\ st.pc = "monitor_playlists"
    /\ SetWorld(IF per_monitor_content /\ Len(st.monitor_paths) > 0
                THEN create_monitor_playlists(Begin("main"),
                                              st.monitor_paths)
                ELSE Begin("main"))
    /\ st' = [st EXCEPT !.pc = "players"]
    /\ UNCHANGED <<sd, lk, adv, bd, tp, ev, rg>>

\* main: "Start media players", then running = true and the loop.
StStartPlayers ==
    /\ st.pc = "players"
    /\ \E f \in [Wins -> ForkOutcomes] :
          LET W == start_all_from(Begin("start_players"), 1, f)
          IN  IF W.pc = "exited"
              THEN /\ SetWorld(W)
                   /\ st' = [st EXCEPT !.pc = "exited", !.status = "0",
                                       !.cleaned = TRUE, !.cause = "signal",
                                       !.lock = FALSE]
              ELSE /\ SetWorld([W EXCEPT !.pc = "loop"])
                   /\ st' = [st EXCEPT !.pc = "loop"]
    /\ UNCHANGED <<sd, lk, adv, bd, tp, ev, rg>>

StNext ==
    \/ StLock
    \/ StInitX11
    \/ StDetectMonitors
    \/ StPlaylists
    \/ StWindows
    \/ StMonitorPlaylists
    \/ StStartPlayers

SpecStartup == StInit /\ [][StNext]_vars

\* C11: the loop is never entered with a window whose effective playlist
\* has no item (start_media_player finds no file for it): a scan that
\* finds nothing ends the startup, with the global playlist and with
\* per-monitor playlists.
C11_NoEmptyPlaylistInLoop ==
    st.pc = "loop" =>
       \A i \in 1..window_count :
          CurrentFile(windows, media_playlist, i) # NoFile

\* C12: a startup ended by a fatal condition (the lock is held, no
\* display, no monitor, an empty playlist, no memory for the windows, a
\* window that is not created) has a non-zero exit status, after cleanup.
C12_FatalExitsNonZero ==
    (st.pc = "exited" /\ st.cause # "signal") => st.status = "1"

----------------------------------------------------------------------------
(* The termination model: the statements of terminate_player and
   terminate_fade_process *)

\* What a window of the termination model may hold in a slot: nothing, or
\* the pid of a process that runs or has exited, active or not.
TpSlots(pid) == [pid : {0, pid}, active : BOOLEAN]

\* tp.pc is the statement the function is at ("ready": not in a call),
\* tp.fn the function ("player": terminate_player, "fade":
\* terminate_fade_process), tp.i its window, tp.pid the pid it signals,
\* tp.found the result of kill(pid, 0) == 0, tp.sent the signals the call
\* has sent.  The first window has pids 1 (player) and 2 (fade), the second
\* pid 3 (player).
TpInit ==
    /\ multi_monitor = TRUE
    /\ per_monitor_content = FALSE
    /\ seamless_transitions = TRUE
    /\ media_playlist = Playlist(1, FALSE)
    /\ \E n \in 1..MaxMonitors : monitors = [count |-> n]
    /\ window_count = monitors.count
    /\ \E a \in TpSlots(1), b \in TpSlots(2), c \in TpSlots(3) :
          windows =
             [i \in 1..window_count |->
                 IF i = 1
                 THEN [NewWindow(1) EXCEPT !.player_pid = a.pid,
                                           !.player_active = a.active,
                                           !.fade_pid = b.pid,
                                           !.fade_active = b.active]
                 ELSE [NewWindow(i) EXCEPT !.player_pid = c.pid,
                                           !.player_active = c.active]]
    /\ \E live \in SUBSET (1..MaxPids) :
          procs = [p \in 1..MaxPids |->
                     IF p \in live
                           /\ p \in Held([windows |-> windows,
                                          pid_file |-> <<>>])
                     THEN [kind |-> IF p = 2 THEN "script" ELSE "player",
                           win |-> IF p = 3 THEN 2 ELSE 1,
                           alive |-> TRUE, primary |-> p # 2]
                     ELSE NoProc]
    /\ pid_file = [i \in 1..MaxMonitors |-> 0]
    /\ pc = "loop"
    /\ log = <<>>
    /\ tp = [pc |-> "ready", fn |-> "player", i |-> 0, pid |-> 0,
             found |-> FALSE, sent |-> <<>>]
    /\ sd = SdIdle /\ lk = LkIdle /\ adv = AdvIdle /\ bd = BdIdle
    /\ st = Idle /\ ev = Idle /\ rg = Idle

\* The call: the check of the index and of the slot; the function returns
\* at once unless the slot is active with a pid.
TpEnter ==
    /\ tp.pc = "ready"
    /\ \E fn \in {"player", "fade"}, i \in 0..(MaxMonitors + 1) :
          LET valid == i >= 1 /\ i <= window_count
              pid == IF ~valid THEN 0
                     ELSE IF fn = "player" THEN windows[i].player_pid
                     ELSE windows[i].fade_pid
              active == IF ~valid THEN FALSE
                        ELSE IF fn = "player" THEN windows[i].player_active
                        ELSE windows[i].fade_active
          IN  tp' = [pc |-> IF active /\ pid > 0 THEN "sigterm" ELSE "ready",
                     fn |-> fn, i |-> i, pid |-> pid, found |-> FALSE,
                     sent |-> <<>>]
    /\ UNCHANGED <<supVars, sd, lk, adv, bd, st, ev, rg>>

\* A step that sends SIGKILL whatever kill(pid, 0) finds.
TpTermBlind ==
    /\ tp.pc = "sigterm"
    /\ tp' = [tp EXCEPT !.pc = "sigkill",
                        !.sent = Append(@, <<"SIGTERM", tp.pid>>)]
    /\ UNCHANGED <<supVars, sd, lk, adv, bd, st, ev, rg>>

\* kill(pid, SIGTERM); usleep; if (kill(pid, 0) == 0): the process ends
\* during the wait or not.
TpTerm ==
    /\ tp.pc = "sigterm"
    /\ \E ends \in BOOLEAN :
          /\ procs' = IF ends THEN [procs EXCEPT ![tp.pid] = NoProc]
                      ELSE procs
          /\ tp' = [tp EXCEPT !.pc = IF procs'[tp.pid].alive
                                     THEN "sigkill" ELSE "clear",
                              !.found = procs'[tp.pid].alive,
                              !.sent = Append(@, <<"SIGTERM", tp.pid>>)]
    /\ log' = <<>>
    /\ UNCHANGED <<multi_monitor, per_monitor_content, seamless_transitions,
                   media_playlist, monitors, windows, window_count,
                   pid_file, pc, sd, lk, adv, bd, st, ev, rg>>

\* kill(pid, SIGKILL).
TpKill ==
    /\ tp.pc = "sigkill"
    /\ procs' = [procs EXCEPT ![tp.pid] = NoProc]
    /\ tp' = [tp EXCEPT !.pc = "clear",
                        !.sent = Append(@, <<"SIGKILL", tp.pid>>)]
    /\ log' = <<>>
    /\ UNCHANGED <<multi_monitor, per_monitor_content, seamless_transitions,
                   media_playlist, monitors, windows, window_count,
                   pid_file, pc, sd, lk, adv, bd, st, ev, rg>>

\* waitpid(pid, NULL, WNOHANG); the slot is cleared; the function returns.
TpClear ==
    /\ tp.pc = "clear"
    /\ windows' = IF tp.fn = "player"
                  THEN [windows EXCEPT ![tp.i].player_pid = 0,
                                       ![tp.i].player_active = FALSE,
                                       ![tp.i].player_start_time = "zero"]
                  ELSE [windows EXCEPT ![tp.i].fade_pid = 0,
                                       ![tp.i].fade_active = FALSE]
    /\ tp' = [tp EXCEPT !.pc = "ready"]
    /\ log' = <<>>
    /\ UNCHANGED <<multi_monitor, per_monitor_content, seamless_transitions,
                   media_playlist, monitors, window_count, procs,
                   pid_file, pc, sd, lk, adv, bd, st, ev, rg>>

TpNext == TpEnter \/ TpTerm \/ TpKill \/ TpClear \/ ProcessExits

SpecTerminate == TpInit /\ [][TpNext]_vars

\* C19: a call sends SIGKILL only as its second signal, to the pid it has
\* sent SIGTERM to, and only when kill(pid, 0) found the process after the
\* wait.
C19_GracefulFirst ==
    tp.pc # "idle" =>
       \A k \in DOMAIN tp.sent :
          tp.sent[k][1] = "SIGKILL"
             => /\ k = 2
                /\ tp.sent[1] = <<"SIGTERM", tp.sent[k][2]>>
                /\ tp.found

\* terminate_fade_process has sent SIGTERM and then SIGKILL to the fade
\* script of the first window, which did not end on SIGTERM, and has
\* cleared the slot.
C19_Witness ==
    /\ tp.pc = "ready"
    /\ tp.fn = "fade"
    /\ tp.found
    /\ tp.sent = <<<<"SIGTERM", 2>>, <<"SIGKILL", 2>>>>
    /\ windows[1].fade_pid = 0

----------------------------------------------------------------------------
(* The event model: the event phase of one pass of the loop of main *)

MaxPending == 7

MAX_EVENTS_PER_CYCLE == 5

MAX_CONSECUTIVE_ERRORS == 10

\* The events of the switch of main: "WM_PROTOCOLS" is a ClientMessage
\* whose message_type is WM_PROTOCOLS, "ClientMessage" any other one,
\* "Other" an event that no case handles.
EventTypes ==
    {"DestroyNotify", "WM_PROTOCOLS", "ClientMessage", "ConfigureNotify",
     "RRScreenChangeNotify", "Other"}

\* ev.pc is where main is: "top" (the head of the loop), "events" (the
\* inner while), "timers" (the screen poll, the health check and the
\* playlist change, after if (!running) break), "stopped" (the loop has
\* ended), "exited" (cleanup_and_exit has run).  ev.pending is
\* XPending(display); the type of an event is drawn when it is taken from
\* the queue.  ev.last is the type of the event dispatched last in this
\* pass, ev.resized whether handle_screen_resize has been called in the
\* event phase of this pass.
EvInit ==
    /\ Parked
    /\ ev = [pc |-> "top", pending |-> 0, events_processed |-> 0,
             consecutive_errors |-> 0, running |-> TRUE,
             last |-> "none", resized |-> FALSE]
    /\ sd = SdIdle /\ lk = LkIdle /\ adv = AdvIdle /\ bd = BdIdle
    /\ st = Idle /\ tp = Idle /\ rg = Idle

\* The display server queues an event.
EvArrive ==
    /\ ev.pc \in {"top", "events", "timers", "stopped"}
    /\ ev.pending < MaxPending
    /\ ev' = [ev EXCEPT !.pending = @ + 1]
    /\ UNCHANGED <<supVars, sd, lk, adv, bd, st, tp, rg>>

\* if (display && XPending(display) > 0) { int events_processed = 0; ...
EvBegin ==
    /\ ev.pc = "top"
    /\ ev' = [ev EXCEPT !.pc = IF ev.pending > 0 THEN "events" ELSE "timers",
                        !.events_processed = 0,
                        !.last = "none",
                        !.resized = FALSE]
    /\ UNCHANGED <<supVars, sd, lk, adv, bd, st, tp, rg>>

\* An inner while without the bound on events_processed.
EvDispatchUnbounded ==
    /\ ev.pc = "events"
    /\ ev' = IF ev.pending > 0
             THEN [ev EXCEPT !.pending = @ - 1, !.events_processed = @ + 1]
             ELSE [ev EXCEPT !.pc = "timers"]
    /\ UNCHANGED <<supVars, sd, lk, adv, bd, st, tp, rg>>

\* An inner while that counts the errors of XNextEvent and goes on.
EvDispatchTolerant ==
    /\ ev.pc = "events"
    /\ IF ev.pending > 0 /\ ev.events_processed < MAX_EVENTS_PER_CYCLE
       THEN \E failed \in BOOLEAN :
               ev' = IF failed
                     THEN [ev EXCEPT !.consecutive_errors = @ + 1]
                     ELSE [ev EXCEPT !.consecutive_errors = 0,
                                     !.events_processed = @ + 1,
                                     !.pending = @ - 1]
       ELSE ev' = [ev EXCEPT !.pc = "timers"]
    /\ UNCHANGED <<supVars, sd, lk, adv, bd, st, tp, rg>>

\* An inner while whose switch clears running and that goes on to the next
\* event and to the rest of the pass.
EvDispatchDeaf ==
    /\ ev.pc = "events"
    /\ IF ev.pending > 0 /\ ev.events_processed < MAX_EVENTS_PER_CYCLE
       THEN \E type \in EventTypes :
               ev' = [ev EXCEPT !.consecutive_errors = 0,
                                !.events_processed = @ + 1,
                                !.pending = @ - 1,
                                !.last = type,
                                !.running =
                                   @ /\ type \notin {"DestroyNotify",
                                                     "WM_PROTOCOLS"}]
       ELSE ev' = [ev EXCEPT !.pc = "timers"]
    /\ UNCHANGED <<supVars, sd, lk, adv, bd, st, tp, rg>>

\* The event that XNextEvent has given, counted.
Taken(e, type) ==
    [e EXCEPT !.consecutive_errors = 0,
              !.events_processed = @ + 1,
              !.pending = @ - 1,
              !.last = type]

\* One test of the condition of the inner while and, if it holds, one pass
\* of its body: XNextEvent fails or gives an event, which the switch
\* dispatches; after the while, if (!running) break.
EvDispatch ==
    /\ ev.pc = "events"
    /\ IF ev.pending > 0 /\ ev.events_processed < MAX_EVENTS_PER_CYCLE
       THEN \E failed \in BOOLEAN, type \in EventTypes :
               ev' = IF failed
                     THEN IF ev.consecutive_errors + 1
                                >= MAX_CONSECUTIVE_ERRORS
                          THEN [ev EXCEPT !.consecutive_errors = @ + 1,
                                          !.running = FALSE,
                                          !.pc = "stopped"]
                          ELSE [ev EXCEPT !.consecutive_errors = @ + 1]
                     ELSE IF type \in {"DestroyNotify", "WM_PROTOCOLS"}
                     THEN [Taken(ev, type) EXCEPT !.running = FALSE,
                                                  !.pc = "stopped"]
                     ELSE IF type = "RRScreenChangeNotify"
                     THEN [Taken(ev, type) EXCEPT !.resized = TRUE]
                     ELSE Taken(ev, type)
       ELSE ev' = [ev EXCEPT !.pc = "timers"]
    /\ UNCHANGED <<supVars, sd, lk, adv, bd, st, tp, rg>>

\* The screen poll, the health check, the playlist change and the sleep at
\* the end of the pass.
EvTimers ==
    /\ ev.pc = "timers"
    /\ ev' = [ev EXCEPT !.pc = "top"]
    /\ UNCHANGED <<supVars, sd, lk, adv, bd, st, tp, rg>>

\* After the loop: cleanup_and_exit().
EvCleanup ==
    /\ ev.pc = "stopped"
    /\ ev' = [ev EXCEPT !.pc = "exited"]
    /\ UNCHANGED <<supVars, sd, lk, adv, bd, st, tp, rg>>

EvNext == EvArrive \/ EvBegin \/ EvDispatch \/ EvTimers \/ EvCleanup

\* The main thread goes on running: every statement it is at is executed.
SpecEvents ==
    /\ EvInit
    /\ [][EvNext]_vars
    /\ WF_vars(EvBegin \/ EvDispatch \/ EvTimers \/ EvCleanup)

\* C20: a pass of the loop dispatches at most MAX_EVENTS_PER_CYCLE events,
\* and a pass that is in the event phase reaches the timer phases (or the
\* loop is stopped by an event or by errors), whatever events keep coming.
C20_BoundedDrain ==
    /\ [](ev.pc # "idle" => ev.events_processed <= MAX_EVENTS_PER_CYCLE)
    /\ (ev.pc = "events") ~> (ev.pc = "timers" \/ ev.pc = "stopped")

\* The pass has dispatched five events and is at the timer phases with
\* events still pending.
C20_Witness ==
    /\ ev.pc = "timers"
    /\ ev.events_processed = MAX_EVENTS_PER_CYCLE
    /\ ev.pending > 0
    /\ ev.running

\* C21: the loop is stopped as soon as consecutive_errors reaches
\* MAX_CONSECUTIVE_ERRORS; an event that is read resets the count; the
\* loop is stopped only by the count reaching the threshold or by an event
\* that is dispatched.
C21_ErrorThreshold ==
    [][(ev.pc # "idle") =>
          /\ ev'.consecutive_errors >= MAX_CONSECUTIVE_ERRORS
                => (ev'.pc \in {"stopped", "exited"} /\ ~ev'.running)
          /\ ev'.events_processed = ev.events_processed + 1
                => ev'.consecutive_errors = 0
          /\ (ev.running /\ ~ev'.running)
                => \/ ev'.consecutive_errors >= MAX_CONSECUTIVE_ERRORS
                   \/ ev'.events_processed = ev.events_processed + 1]_vars

\* Ten consecutive errors have stopped the loop, in a pass that had
\* dispatched an event before them.
C21_Witness ==
    /\ ev.pc = "stopped"
    /\ ev.consecutive_errors = MAX_CONSECUTIVE_ERRORS
    /\ ev.events_processed > 0

\* C25: a DestroyNotify or a WM_PROTOCOLS ClientMessage that is
\* dispatched clears running and ends the loop; once the loop has ended no
\* event is dispatched and no timer phase runs, and cleanup_and_exit
\* follows.
C25_StopEvent ==
    /\ [][(ev.pc = "events"
              /\ ev'.events_processed = ev.events_processed + 1
              /\ ev'.last \in {"DestroyNotify", "WM_PROTOCOLS"})
             => (~ev'.running /\ ev'.pc = "stopped")]_vars
    /\ [][(ev.pc # "idle" /\ ~ev.running)
             => /\ ev'.events_processed = ev.events_processed
                /\ ev'.pending >= ev.pending
                /\ ev'.pc \in {"stopped", "exited"}]_vars
    /\ (ev.pc = "stopped") ~> (ev.pc = "exited")

\* A close request, the second event of the pass, has ended the loop while
\* events are pending, and cleanup_and_exit has run.
C25_Witness ==
    /\ ev.pc = "exited"
    /\ ev.last = "WM_PROTOCOLS"
    /\ ev.events_processed = 2
    /\ ev.pending > 0
    /\ ev.consecutive_errors = 0

\* C26: handle_screen_resize is not called while the events of a pass are
\* being dispatched: an RRScreenChangeNotify leaves the reconciliation to
\* the phases that follow the event phase.
C26_DrainBeforeReconcile ==
    ev.pc = "events" => ~ev.resized

----------------------------------------------------------------------------
(* The registry model: detect_monitors, check_monitor_changes and the
   window of single-monitor mode *)

\* primary_index = -1; the indices of the model start at 1.
NoPrimary == 0

\* x, y, width and height of a CRTC: one geometry and the four that differ
\* from it in one field.
Geometries ==
    {[x |-> 0, y |-> 0, width |-> 1, height |-> 1],
     [x |-> 1, y |-> 0, width |-> 1, height |-> 1],
     [x |-> 0, y |-> 1, width |-> 1, height |-> 1],
     [x |-> 0, y |-> 0, width |-> 2, height |-> 1],
     [x |-> 0, y |-> 0, width |-> 1, height |-> 2]}

\* The display server: the CRTCs of the connected outputs in the order of
\* XRRGetScreenResources, and which of them XRRGetOutputPrimary names (0:
\* none of them).  An output after the first has one of two heights.
Servers ==
    {s \in [outputs : UNION {[1..n -> Geometries] : n \in 0..MaxMonitors},
            primary : 0..MaxMonitors] :
        /\ s.primary <= Len(s.outputs)
        /\ \A i \in 2..Len(s.outputs) :
              s.outputs[i].x = 0 /\ s.outputs[i].y = 0
                 /\ s.outputs[i].width = 1}

\* The loop over the outputs: a monitor_setup whose primary_index starts
\* as init.
scan_outputs(server, init) ==
    [count |-> Len(server.outputs),
     primary_index |-> IF server.primary > 0 THEN server.primary ELSE init,
     monitors |-> [i \in 1..Len(server.outputs) |->
                     [x |-> server.outputs[i].x,
                      y |-> server.outputs[i].y,
                      width |-> server.outputs[i].width,
                      height |-> server.outputs[i].height,
                      primary |-> i = server.primary]]]

\* if (primary_index == -1 && count > 0) { primary_index = 0;
\* monitors[0].primary = true; }
designate_primary(m) ==
    IF m.primary_index = NoPrimary /\ m.count > 0
    THEN [m EXCEPT !.primary_index = 1, !.monitors[1].primary = TRUE]
    ELSE m

\* detect_monitors: config.monitors.primary_index = -1 before the loop.
detect_monitors(server) == designate_primary(scan_outputs(server, NoPrimary))

\* new_monitors of check_monitor_changes: monitor_setup new_monitors =
\* {0}, its primary_index starts as the index of the first monitor.
new_monitors(server) == designate_primary(scan_outputs(server, 1))

\* A comparison that leaves out the height.
setups_differ_flat(old, new) ==
    \/ new.count # old.count
    \/ \E i \in 1..new.count :
          \/ old.monitors[i].x # new.monitors[i].x
          \/ old.monitors[i].y # new.monitors[i].y
          \/ old.monitors[i].width # new.monitors[i].width

\* check_monitor_changes: "Comparar con configuración actual".
setups_differ(old, new) ==
    IF new.count # old.count THEN TRUE
    ELSE \E i \in 1..new.count :
            \/ old.monitors[i].x # new.monitors[i].x
            \/ old.monitors[i].y # new.monitors[i].y
            \/ old.monitors[i].width # new.monitors[i].width
            \/ old.monitors[i].height # new.monitors[i].height

\* check_monitor_changes on the registry r; resources = FALSE:
\* XRRGetScreenResources returns NULL.  r.changed is what it returns.
checked(r, resources) ==
    IF ~resources THEN [r EXCEPT !.changed = FALSE, !.resources = FALSE]
    ELSE IF setups_differ(r.monitors, new_monitors(r.server))
    THEN [r EXCEPT !.changed = TRUE, !.resources = TRUE,
                   !.monitors = new_monitors(r.server)]
    ELSE [r EXCEPT !.changed = FALSE, !.resources = TRUE]

\* resize_window_for_monitor(0, 0) with window_count = 1.
resized_to_first(r) ==
    IF r.monitors.count < 1 \/ r.windows[1].window = 0 THEN r
    ELSE [r EXCEPT !.windows[1].x = r.monitors.monitors[1].x,
                   !.windows[1].y = r.monitors.monitors[1].y,
                   !.windows[1].width = r.monitors.monitors[1].width,
                   !.windows[1].height = r.monitors.monitors[1].height,
                   !.windows[1].monitor_id = 1]

\* handle_screen_resize in single-monitor mode, after its
\* check_monitor_changes.
reconciled(r) == IF r.changed THEN resized_to_first(r) ELSE r

\* calloc(1, sizeof(window_info))
ZeroWindow ==
    [window |-> 0, x |-> 0, y |-> 0, width |-> 0, height |-> 0,
     monitor_id |-> 1]

\* rg.pc is where main is: "detect", "windows", "loop" (between two
\* operations of the loop), "poll" (in the fallback, between its
\* check_monitor_changes and its handle_screen_resize), "exited", or
\* "crashed".  rg.created is whether XCreateWindow gave a window, rg.stray
\* whether create_window_for_monitor has written past config.windows.
RgInit ==
    /\ Parked
    /\ \E s \in Servers :
          rg = [pc |-> "detect", server |-> s,
                monitors |-> [count |-> 0, primary_index |-> 1,
                              monitors |-> <<>>],
                windows |-> <<>>, changed |-> FALSE, resources |-> TRUE,
                created |-> FALSE, stray |-> FALSE]
    /\ sd = SdIdle /\ lk = LkIdle /\ adv = AdvIdle /\ bd = BdIdle
    /\ st = Idle /\ tp = Idle /\ ev = Idle

RgKeep == UNCHANGED <<supVars, sd, lk, adv, bd, st, tp, ev>>

\* main: if (!detect_monitors()) cleanup_and_exit().
RgDetect ==
    /\ rg.pc = "detect"
    /\ \E resources \in BOOLEAN :
          rg' = IF resources /\ Len(rg.server.outputs) > 0
                THEN [rg EXCEPT !.pc = "windows",
                                !.monitors = detect_monitors(rg.server)]
                ELSE [rg EXCEPT !.pc = "exited", !.resources = resources]
    /\ RgKeep

\* main without multi_monitor: window_count = 1, calloc,
\* create_window_for_monitor(primary), if (config.windows[0].window ==
\* None) cleanup_and_exit().  With the primary monitor after the first,
\* create_window_for_monitor writes config.windows[primary], past the one
\* window allocated: the first window keeps None, and the write may have
\* damaged the heap that cleanup_and_exit frees.
RgCreateWindow ==
    /\ rg.pc = "windows"
    /\ \E created \in BOOLEAN :
          LET primary == IF rg.monitors.primary_index = NoPrimary
                         THEN 1 ELSE rg.monitors.primary_index
              mon == rg.monitors.monitors[primary]
          IN  IF primary = 1
              THEN rg' = [rg EXCEPT
                            !.pc = IF created THEN "loop" ELSE "exited",
                            !.created = created,
                            !.windows =
                               <<[window |-> IF created THEN 1 ELSE 0,
                                  x |-> mon.x, y |-> mon.y,
                                  width |-> mon.width,
                                  height |-> mon.height,
                                  monitor_id |-> primary]>>]
              ELSE \E end \in {"exited", "crashed"} :
                      rg' = [rg EXCEPT !.pc = end,
                                       !.created = created,
                                       !.stray = TRUE,
                                       !.windows = <<ZeroWindow>>]
    /\ RgKeep

\* Environment: outputs are connected, disconnected or reconfigured, the
\* primary output is changed.
RgServerChanges ==
    /\ rg.pc \in {"loop", "poll"}
    /\ \E s \in Servers :
          /\ s # rg.server
          /\ rg' = [rg EXCEPT !.server = s]
    /\ RgKeep

\* main: an RRScreenChangeNotify event: handle_screen_resize().
RgScreenChangeEvent ==
    /\ rg.pc = "loop"
    /\ \E resources \in BOOLEAN : rg' = reconciled(checked(rg, resources))
    /\ RgKeep

\* main: the fallback, if (check_monitor_changes()) ...
RgPollCheck ==
    /\ rg.pc = "loop"
    /\ \E resources \in BOOLEAN :
          rg' = [checked(rg, resources) EXCEPT
                    !.pc = IF checked(rg, resources).changed
                           THEN "poll" ELSE "loop"]
    /\ RgKeep

\* ... handle_screen_resize().
RgPollResize ==
    /\ rg.pc = "poll"
    /\ \E resources \in BOOLEAN :
          rg' = [reconciled(checked(rg, resources)) EXCEPT !.pc = "loop"]
    /\ RgKeep

RgNext ==
    \/ RgDetect
    \/ RgCreateWindow
    \/ RgServerChanges
    \/ RgScreenChangeEvent
    \/ RgPollCheck
    \/ RgPollResize

SpecRegistry == RgInit /\ [][RgNext]_vars

\* C31: a check_monitor_changes that has the screen resources reports
\* changed exactly when the number of monitors detected differs from the
\* stored one or a monitor differs from the stored one at its position in
\* x, y, width or height; it stores the detection exactly when it reports
\* changed and leaves the snapshot as it is otherwise.
C31_DiffAndStore ==
    [][(rg.pc \in {"loop", "poll"} /\ rg'.server = rg.server
           /\ rg'.resources)
          => /\ rg'.changed <=>
                   \/ Len(rg.server.outputs) # rg.monitors.count
                   \/ \E i \in 1..rg.monitors.count :
                         \E f \in {"x", "y", "width", "height"} :
                            rg.server.outputs[i][f] # rg.monitors.monitors[i][f]
             /\ rg'.changed => rg'.monitors = new_monitors(rg.server)
             /\ ~rg'.changed => rg'.monitors = rg.monitors]_vars

\* A check has found the height of the second of two monitors changed and
\* nothing else, and has stored the detection.
C31_Witness ==
    /\ rg.pc = "poll"
    /\ rg.changed
    /\ rg.monitors.count = 2
    /\ rg.monitors.monitors[1].height = 1
    /\ rg.monitors.monitors[2] =
          [x |-> 0, y |-> 0, width |-> 1, height |-> 2, primary |-> FALSE]
    /\ rg.monitors = new_monitors(rg.server)

\* The monitors of the snapshot whose primary flag is set.
Flagged(m) == {i \in 1..m.count : m.monitors[i].primary}

\* C32: a snapshot with at least one monitor designates exactly one
\* primary monitor: primary_index is the index of a monitor, and that
\* monitor and no other has its primary flag set.
C32_OnePrimary ==
    (rg.pc \in {"windows", "loop", "poll"} /\ rg.monitors.count > 0) =>
       /\ rg.monitors.primary_index \in 1..rg.monitors.count
       /\ Flagged(rg.monitors) = {rg.monitors.primary_index}

\* C33: in single-monitor mode, when XCreateWindow gives a window, the
\* startup reaches the loop; in the loop there is one window, the first,
\* and between two operations of the loop it has the geometry of the
\* primary monitor of the snapshot.
C33_PrimarySurface ==
    /\ (rg.pc \in {"exited", "crashed"} /\ rg.windows # <<>>)
          => ~rg.created
    /\ (rg.pc = "loop" /\ rg.monitors.count > 0) =>
          /\ Len(rg.windows) = 1
          /\ rg.windows[1].window # 0
          /\ \A f \in {"x", "y", "width", "height"} :
                rg.windows[1][f] =
                   rg.monitors.monitors[rg.monitors.primary_index][f]

====
